---- MODULE Spec2Model ----
(***************************************************************************)
(* Model of the financial simulation engine of money-planner               *)
(* (src/utils/investmentCalculations.ts, src/utils/calculations.ts,        *)
(* src/utils/purchaseCalculations.ts).                                     *)
(*                                                                         *)
(* The engine is a set of pure functions over JavaScript numbers.  Numbers *)
(* are modelled as exact rationals <<n, d>> in lowest terms with d > 0,    *)
(* extended with the three non-finite values of the language:              *)
(* <<1, 0>> = Infinity, <<-1, 0>> = -Infinity, <<0, 0>> = NaN.  Arithmetic *)
(* is exact (no binary rounding error; -0 is not distinguished from 0), so *)
(* "within floating-point epsilon" in the documentation reads as equality  *)
(* here.  Math.pow is modelled for whole, non-negative exponents only, and *)
(* the inputs are chosen accordingly.                                      *)
(***************************************************************************)
EXTENDS Integers, Sequences, FiniteSets, TLC

\* a call of one of the calculation functions
VARIABLES pc, fn, args, result

\* the state of the Dashboard component and of the GoalForm it shows
VARIABLES goals, showGoalForm, editingGoal, formData, errors, clock, nextId

calculator == <<pc, fn, args, result>>

dashboard == <<goals, showGoalForm, editingGoal, formData, errors, clock, nextId>>

vars == <<pc, fn, args, result,
          goals, showGoalForm, editingGoal, formData, errors, clock, nextId>>

(***************************************************************************)
(* JavaScript numbers                                                      *)
(***************************************************************************)
Abs(k) == IF k < 0 THEN -k ELSE k

Sign(k) == IF k < 0 THEN -1 ELSE IF k > 0 THEN 1 ELSE 0

RECURSIVE GCD(_, _)
GCD(a, b) == IF b = 0 THEN a ELSE GCD(b, a % b)

\* the number n/d, d # 0, in lowest terms with a positive denominator
Norm(n, d) ==
  LET g == GCD(Abs(n), Abs(d))
  IN  <<Sign(d) * (n \div g), Abs(d) \div g>>

I(k) == <<k, 1>>

Frac(n, d) == Norm(n, d)

Zero == <<0, 1>>

One == <<1, 1>>

Infinity == <<1, 0>>

NegInfinity == <<-1, 0>>

NaN == <<0, 0>>

IsNaN(x) == x = NaN

IsFinite(x) == x[2] # 0

IsZero(x) == x = Zero

RSign(x) == Sign(x[1])

RNeg(x) == <<-x[1], x[2]>>

\* x + y
RAdd(x, y) ==
  IF IsNaN(x) \/ IsNaN(y) THEN NaN
  ELSE IF ~IsFinite(x) THEN (IF ~IsFinite(y) /\ y # x THEN NaN ELSE x)
  ELSE IF ~IsFinite(y) THEN y
  ELSE LET g == GCD(x[2], y[2])
       IN  Norm(x[1] * (y[2] \div g) + y[1] * (x[2] \div g), (x[2] \div g) * y[2])

\* x - y
RSub(x, y) == RAdd(x, RNeg(y))

\* x * y
RMul(x, y) ==
  IF IsNaN(x) \/ IsNaN(y) THEN NaN
  ELSE IF ~IsFinite(x) \/ ~IsFinite(y)
       THEN (IF IsZero(x) \/ IsZero(y) THEN NaN ELSE <<RSign(x) * RSign(y), 0>>)
  ELSE LET g1 == GCD(Abs(x[1]), y[2])
           g2 == GCD(Abs(y[1]), x[2])
       IN  Norm((x[1] \div g1) * (y[1] \div g2), (x[2] \div g2) * (y[2] \div g1))

\* x / y
RDiv(x, y) ==
  IF IsNaN(x) \/ IsNaN(y) THEN NaN
  ELSE IF ~IsFinite(y) THEN (IF ~IsFinite(x) THEN NaN ELSE Zero)
  ELSE IF IsZero(y) THEN (IF IsZero(x) THEN NaN ELSE <<RSign(x), 0>>)
  ELSE RMul(x, Norm(y[2], y[1]))

\* x < y
RLt(x, y) ==
  IF IsNaN(x) \/ IsNaN(y) THEN FALSE
  ELSE IF ~IsFinite(x) /\ ~IsFinite(y) THEN x[1] < y[1]
  ELSE x[1] * y[2] < y[1] * x[2]

\* x <= y
RLe(x, y) == ~IsNaN(x) /\ ~IsNaN(y) /\ (x = y \/ RLt(x, y))

\* x > y
RGt(x, y) == RLt(y, x)

\* x >= y
RGe(x, y) == RLe(y, x)

MathMin(x, y) == IF IsNaN(x) \/ IsNaN(y) THEN NaN ELSE IF RLt(y, x) THEN y ELSE x

MathMax(x, y) == IF IsNaN(x) \/ IsNaN(y) THEN NaN ELSE IF RLt(x, y) THEN y ELSE x

\* Math.ceil
MathCeil(x) == IF ~IsFinite(x) THEN x ELSE I(-((-x[1]) \div x[2]))

\* rounding to 2 decimals in place of rounding to whole units
MathRound_twoDecimals(x) ==
  IF ~IsFinite(x) THEN x
  ELSE LET whole == Abs(x[1]) \div x[2]
           rest == Abs(x[1]) % x[2]
       IN  Norm(RSign(x) * (100 * whole + (200 * rest + x[2]) \div (2 * x[2])), 100)

\* Math.round: the nearest integer, a tie going towards +Infinity
MathRound(x) == IF ~IsFinite(x) THEN x ELSE I((2 * x[1] + x[2]) \div (2 * x[2]))

\* Number(x.toFixed(2)): the nearest multiple of 0.01, a tie going away from 0
ToFixed2(x) ==
  IF ~IsFinite(x) THEN x
  ELSE LET whole == Abs(x[1]) \div x[2]
           rest == Abs(x[1]) % x[2]
       IN  Norm(RSign(x) * (100 * whole + (200 * rest + x[2]) \div (2 * x[2])), 100)

\* Math.pow(x, n) for a whole exponent n >= 0
RECURSIVE PowInt(_, _)
PowInt(x, n) == IF n = 0 THEN One ELSE RMul(x, PowInt(x, n - 1))

IsWhole(x) == IsFinite(x) /\ x[2] = 1

MathPow(x, e) == PowInt(x, e[1])

(***************************************************************************)
(* investmentCalculations.ts                                               *)
(***************************************************************************)
\* the hard ceiling of the horizon solver
MaxMonths == 1200

\* the ceiling of the horizon solver in place of that of the trajectory
MaxProjectionPoints_horizon == MaxMonths

\* the presentation ceiling of the trajectory
MaxProjectionPoints == 600

\* one pass of the while loop of calculateInvestmentPeriod: the test of its
\* condition and, when it holds, its body; s holds the loop's variables
PeriodStep(s, targetAmount, monthlyReturn, monthlyInvestment) ==
  IF RLt(s.currentValue, targetAmount) /\ s.months < MaxMonths
  THEN [currentValue |-> RAdd(RMul(s.currentValue, RAdd(One, monthlyReturn)),
                              monthlyInvestment),
        months |-> s.months + 1]
  ELSE s

\* the while loop: up to n passes, none after the condition has failed
RECURSIVE PeriodLoop(_, _, _, _, _)
PeriodLoop(s, n, targetAmount, monthlyReturn, monthlyInvestment) ==
  IF n = 0 \/ ~(RLt(s.currentValue, targetAmount) /\ s.months < MaxMonths) THEN s
  ELSE IF n = 1 THEN PeriodStep(s, targetAmount, monthlyReturn, monthlyInvestment)
  ELSE PeriodLoop(PeriodLoop(s, n \div 2, targetAmount, monthlyReturn, monthlyInvestment),
                  n - (n \div 2), targetAmount, monthlyReturn, monthlyInvestment)

\* the zero-rate shortcut with Math.floor(...) + 1 in place of Math.ceil
calculateInvestmentPeriod_floor(currentAmount, targetAmount, monthlyInvestment, annualReturn) ==
  IF RGe(currentAmount, targetAmount) THEN Zero
  ELSE IF RLe(monthlyInvestment, Zero) THEN Infinity
  ELSE LET monthlyReturn == RDiv(annualReturn, I(12))
           remainingAmount == RSub(targetAmount, currentAmount)
       IN  IF monthlyReturn = Zero
           THEN RAdd(RNeg(MathCeil(RNeg(RDiv(remainingAmount, monthlyInvestment)))), One)
           ELSE I(PeriodLoop([currentValue |-> currentAmount, months |-> 0], MaxMonths,
                             targetAmount, monthlyReturn, monthlyInvestment).months)

\* the two early returns in the other order
calculateInvestmentPeriod_paymentFirst(currentAmount, targetAmount, monthlyInvestment, annualReturn) ==
  IF RLe(monthlyInvestment, Zero) THEN Infinity
  ELSE IF RGe(currentAmount, targetAmount) THEN Zero
  ELSE LET monthlyReturn == RDiv(annualReturn, I(12))
           remainingAmount == RSub(targetAmount, currentAmount)
       IN  IF monthlyReturn = Zero
           THEN MathCeil(RDiv(remainingAmount, monthlyInvestment))
           ELSE I(PeriodLoop([currentValue |-> currentAmount, months |-> 0], MaxMonths,
                             targetAmount, monthlyReturn, monthlyInvestment).months)

\* the ceiling value in place of Infinity for a contribution <= 0
calculateInvestmentPeriod_ceiling(currentAmount, targetAmount, monthlyInvestment, annualReturn) ==
  IF RGe(currentAmount, targetAmount) THEN Zero
  ELSE IF RLe(monthlyInvestment, Zero) THEN I(MaxMonths)
  ELSE LET monthlyReturn == RDiv(annualReturn, I(12))
           remainingAmount == RSub(targetAmount, currentAmount)
       IN  IF monthlyReturn = Zero
           THEN MathCeil(RDiv(remainingAmount, monthlyInvestment))
           ELSE I(PeriodLoop([currentValue |-> currentAmount, months |-> 0], MaxMonths,
                             targetAmount, monthlyReturn, monthlyInvestment).months)

calculateInvestmentPeriod(currentAmount, targetAmount, monthlyInvestment, annualReturn) ==
  IF RGe(currentAmount, targetAmount) THEN Zero
  ELSE IF RLe(monthlyInvestment, Zero) THEN Infinity
  ELSE LET monthlyReturn == RDiv(annualReturn, I(12))
           remainingAmount == RSub(targetAmount, currentAmount)
       IN  IF monthlyReturn = Zero
           THEN MathCeil(RDiv(remainingAmount, monthlyInvestment))
           ELSE I(PeriodLoop([currentValue |-> currentAmount, months |-> 0], MaxMonths,
                             targetAmount, monthlyReturn, monthlyInvestment).months)

\* the pass with the contribution added before the month's growth
SimulationStep_payFirst(s, projectedMonths, targetAmount, monthlyInvestment, monthlyReturn) ==
  IF s.break \/ ~RLe(I(s.month), MathMin(projectedMonths, I(MaxProjectionPoints))) THEN s
  ELSE LET monthlyReturn_amount == RMul(s.totalValue, monthlyReturn)
           totalValue == RMul(RAdd(s.totalValue, monthlyInvestment), RAdd(One, monthlyReturn))
           cumulativeInvestment == RAdd(s.cumulativeInvestment, monthlyInvestment)
           cumulativeReturns == RAdd(s.cumulativeReturns, monthlyReturn_amount)
           progress == MathMin(RMul(RDiv(totalValue, targetAmount), I(100)), I(100))
           point == [month |-> s.month,
                     monthlyInvestment |-> monthlyInvestment,
                     cumulativeInvestment |-> MathRound(cumulativeInvestment),
                     monthlyReturn |-> MathRound(monthlyReturn_amount),
                     cumulativeReturns |-> MathRound(cumulativeReturns),
                     totalValue |-> MathRound(totalValue),
                     progress |-> RDiv(MathRound(RMul(progress, I(100))), I(100))]
       IN  [month |-> IF RGe(totalValue, targetAmount) THEN s.month ELSE s.month + 1,
            break |-> RGe(totalValue, targetAmount),
            cumulativeInvestment |-> cumulativeInvestment,
            cumulativeReturns |-> cumulativeReturns,
            totalValue |-> totalValue,
            monthlyProjections |-> Append(s.monthlyProjections, point)]

\* one pass of the for loop of calculateInvestmentSimulation: the test of its
\* condition, its body, and month++ unless the body ends in break; s holds the
\* loop's variables and the points pushed so far
SimulationStep(s, projectedMonths, targetAmount, monthlyInvestment, monthlyReturn) ==
  IF s.break \/ ~RLe(I(s.month), MathMin(projectedMonths, I(MaxProjectionPoints))) THEN s
  ELSE LET monthlyReturn_amount == RMul(s.totalValue, monthlyReturn)
           totalValue == RAdd(RMul(s.totalValue, RAdd(One, monthlyReturn)), monthlyInvestment)
           cumulativeInvestment == RAdd(s.cumulativeInvestment, monthlyInvestment)
           cumulativeReturns == RAdd(s.cumulativeReturns, monthlyReturn_amount)
           progress == MathMin(RMul(RDiv(totalValue, targetAmount), I(100)), I(100))
           point == [month |-> s.month,
                     monthlyInvestment |-> monthlyInvestment,
                     cumulativeInvestment |-> MathRound(cumulativeInvestment),
                     monthlyReturn |-> MathRound(monthlyReturn_amount),
                     cumulativeReturns |-> MathRound(cumulativeReturns),
                     totalValue |-> MathRound(totalValue),
                     progress |-> RDiv(MathRound(RMul(progress, I(100))), I(100))]
       IN  [month |-> IF RGe(totalValue, targetAmount) THEN s.month ELSE s.month + 1,
            break |-> RGe(totalValue, targetAmount),
            cumulativeInvestment |-> cumulativeInvestment,
            cumulativeReturns |-> cumulativeReturns,
            totalValue |-> totalValue,
            monthlyProjections |-> Append(s.monthlyProjections, point)]

\* the for loop: up to n passes, none after the condition has failed or break
RECURSIVE SimulationLoop(_, _, _, _, _, _)
SimulationLoop(s, n, projectedMonths, targetAmount, monthlyInvestment, monthlyReturn) ==
  IF n = 0 \/ s.break
     \/ ~RLe(I(s.month), MathMin(projectedMonths, I(MaxProjectionPoints))) THEN s
  ELSE IF n = 1
       THEN SimulationStep(s, projectedMonths, targetAmount, monthlyInvestment, monthlyReturn)
  ELSE SimulationLoop(SimulationLoop(s, n \div 2, projectedMonths, targetAmount,
                                     monthlyInvestment, monthlyReturn),
                      n - (n \div 2), projectedMonths, targetAmount,
                      monthlyInvestment, monthlyReturn)

\* x || y on numbers: y when x is 0 or NaN
OrElse(x, y) == IF IsZero(x) \/ IsNaN(x) THEN y ELSE x

\* The scenarios field (calculateInvestmentScenarios, a separate pure function
\* of the same four arguments) and projectedCompletionDate (a wall-clock date)
\* are computed after the trajectory and feed nothing back into the fields below.
calculateInvestmentSimulation(currentAmount, targetAmount, monthlyInvestment, annualReturn) ==
  LET monthlyReturn == RDiv(annualReturn, I(12))
      projectedMonths == calculateInvestmentPeriod(currentAmount, targetAmount,
                                                   monthlyInvestment, annualReturn)
      s == SimulationLoop([month |-> 1,
                           break |-> FALSE,
                           cumulativeInvestment |-> Zero,
                           cumulativeReturns |-> Zero,
                           totalValue |-> currentAmount,
                           monthlyProjections |-> <<>>],
                          MaxMonths,
                          projectedMonths, targetAmount, monthlyInvestment, monthlyReturn)
      monthlyProjections == s.monthlyProjections
      totalInvested == RMul(projectedMonths, monthlyInvestment)
      finalValue == IF Len(monthlyProjections) = 0 THEN s.totalValue
                    ELSE OrElse(monthlyProjections[Len(monthlyProjections)].totalValue,
                                s.totalValue)
      totalReturns == RSub(RSub(finalValue, currentAmount), totalInvested)
  IN  [currentAmount |-> currentAmount,
       targetAmount |-> targetAmount,
       monthlyInvestment |-> monthlyInvestment,
       annualReturn |-> annualReturn,
       projectedMonths |-> projectedMonths,
       totalInvested |-> MathRound(totalInvested),
       totalReturns |-> MathRound(totalReturns),
       monthlyProjections |-> monthlyProjections]

\* the fixed offset between the bands
volatility == Frac(15, 100)

\* the conservative band moved up by the offset instead of down
conservativeReturn_up(expectedReturn) ==
  MathMax(Frac(1, 100), RAdd(expectedReturn, RAdd(volatility, volatility)))

conservativeReturn(expectedReturn) ==
  MathMax(Frac(1, 100), RSub(expectedReturn, volatility))

\* the optimistic band moved down by the offset instead of up
optimisticReturn_down(expectedReturn) ==
  RSub(expectedReturn, volatility)

optimisticReturn(expectedReturn) ==
  RAdd(expectedReturn, volatility)

\* the period count from which a band is reported as not attainable
ScenarioCeiling == 1200

\* one pass of the for loop that replays a band: the test i < projectedMonths
\* and, when it holds, the body and i++
ScenarioStep(s, projectedMonths, monthlyReturn, monthlyInvestment) ==
  IF RLt(I(s.i), projectedMonths)
  THEN [value |-> RAdd(RMul(s.value, RAdd(One, monthlyReturn)), monthlyInvestment),
        i |-> s.i + 1]
  ELSE s

\* the for loop: up to n passes, none after the condition has failed
RECURSIVE ScenarioLoop(_, _, _, _, _)
ScenarioLoop(s, n, projectedMonths, monthlyReturn, monthlyInvestment) ==
  IF n = 0 \/ ~RLt(I(s.i), projectedMonths) THEN s
  ELSE IF n = 1 THEN ScenarioStep(s, projectedMonths, monthlyReturn, monthlyInvestment)
  ELSE ScenarioLoop(ScenarioLoop(s, n \div 2, projectedMonths, monthlyReturn,
                                 monthlyInvestment),
                    n - (n \div 2), projectedMonths, monthlyReturn, monthlyInvestment)

\* the callback with a band at the ceiling left at its initial zeros
ScenarioTotals_keepsZero(scenario, currentAmount, targetAmount, monthlyInvestment) ==
  IF RLt(scenario.projectedMonths, I(ScenarioCeiling))
  THEN LET monthlyReturn == RDiv(scenario.annualReturn, I(12))
           value == ScenarioLoop([value |-> currentAmount, i |-> 0], ScenarioCeiling,
                                 scenario.projectedMonths, monthlyReturn,
                                 monthlyInvestment).value
       IN  [scenario EXCEPT
              !.totalValue = MathRound(value),
              !.totalReturns =
                 MathRound(RSub(RSub(value, currentAmount),
                                RMul(monthlyInvestment, scenario.projectedMonths)))]
  ELSE scenario

\* the callback of scenarios.forEach: the totals of one band
ScenarioTotals(scenario, currentAmount, targetAmount, monthlyInvestment) ==
  IF RLt(scenario.projectedMonths, I(ScenarioCeiling))
  THEN LET monthlyReturn == RDiv(scenario.annualReturn, I(12))
           value == ScenarioLoop([value |-> currentAmount, i |-> 0], ScenarioCeiling,
                                 scenario.projectedMonths, monthlyReturn,
                                 monthlyInvestment).value
       IN  [scenario EXCEPT
              !.totalValue = MathRound(value),
              !.totalReturns =
                 MathRound(RSub(RSub(value, currentAmount),
                                RMul(monthlyInvestment, scenario.projectedMonths)))]
  ELSE [scenario EXCEPT !.totalValue = targetAmount, !.totalReturns = Zero]

calculateInvestmentScenarios(currentAmount, targetAmount, monthlyInvestment, expectedReturn) ==
  LET band(annualReturn) ==
        [annualReturn |-> annualReturn,
         projectedMonths |-> calculateInvestmentPeriod(currentAmount, targetAmount,
                                                       monthlyInvestment, annualReturn),
         totalValue |-> Zero,
         totalReturns |-> Zero]
      conservative == band(conservativeReturn(expectedReturn))
      expected == band(expectedReturn)
      optimistic == band(optimisticReturn(expectedReturn))
  IN  [conservative |-> ScenarioTotals(conservative, currentAmount, targetAmount,
                                       monthlyInvestment),
       expected |-> ScenarioTotals(expected, currentAmount, targetAmount,
                                   monthlyInvestment),
       optimistic |-> ScenarioTotals(optimistic, currentAmount, targetAmount,
                                     monthlyInvestment)]

(***************************************************************************)
(* calculations.ts, purchaseCalculations.ts: loans                         *)
(***************************************************************************)
\* the payment of a simple-interest loan: an n-th of the principal plus a
\* month's interest on the whole principal
calculateMonthlyPayment_simple(principal, rate, years) ==
  LET monthlyRate == RDiv(rate, I(12))
      totalPayments == RMul(years, I(12))
  IN  IF rate = Zero THEN RDiv(principal, totalPayments)
      ELSE RAdd(RDiv(principal, totalPayments), RMul(principal, monthlyRate))

calculateMonthlyPayment(principal, rate, years) ==
  LET monthlyRate == RDiv(rate, I(12))
      totalPayments == RMul(years, I(12))
  IN  IF rate = Zero THEN RDiv(principal, totalPayments)
      ELSE RDiv(RMul(principal,
                     RMul(monthlyRate, MathPow(RAdd(One, monthlyRate), totalPayments))),
                RSub(MathPow(RAdd(One, monthlyRate), totalPayments), One))

\* the for loop of calculateLoanDetails, entered at the test of its condition;
\* s holds the loop's variables and the schedule pushed so far
RECURSIVE LoanLoop(_, _, _, _)
LoanLoop(s, monthlyPayment, monthlyRate, totalPayments) ==
  IF ~RLe(I(s.month), totalPayments) THEN s
  ELSE LET interestPayment == RMul(s.remainingBalance, monthlyRate)
           principalPayment == RSub(monthlyPayment, interestPayment)
           remainingBalance == RSub(s.remainingBalance, principalPayment)
           totalInterest == RAdd(s.totalInterest, interestPayment)
           entry == [month |-> s.month,
                     payment |-> ToFixed2(monthlyPayment),
                     principal |-> ToFixed2(principalPayment),
                     interest |-> ToFixed2(interestPayment),
                     remainingBalance |-> ToFixed2(MathMax(Zero, remainingBalance))]
       IN  LoanLoop([month |-> s.month + 1,
                     remainingBalance |-> remainingBalance,
                     totalInterest |-> totalInterest,
                     paymentSchedule |-> Append(s.paymentSchedule, entry)],
                    monthlyPayment, monthlyRate, totalPayments)

calculateLoanDetails(principal, rate, years) ==
  LET monthlyPayment == calculateMonthlyPayment(principal, rate, years)
      monthlyRate == RDiv(rate, I(12))
      totalPayments == RMul(years, I(12))
      s == LoanLoop([month |-> 1,
                     remainingBalance |-> principal,
                     totalInterest |-> Zero,
                     paymentSchedule |-> <<>>],
                    monthlyPayment, monthlyRate, totalPayments)
  IN  [monthlyPayment |-> ToFixed2(monthlyPayment),
       totalPayment |-> ToFixed2(RMul(monthlyPayment, totalPayments)),
       totalInterest |-> ToFixed2(s.totalInterest),
       paymentSchedule |-> s.paymentSchedule]

\* the level payment without its zero-rate branch
calculateMonthlyLoanPayment_noZeroBranch(principal, annualRate, months) ==
  LET monthlyRate == RDiv(annualRate, I(12))
      factor == MathPow(RAdd(One, monthlyRate), months)
  IN  RDiv(RMul(principal, RMul(monthlyRate, factor)), RSub(factor, One))

calculateMonthlyLoanPayment(principal, annualRate, months) ==
  IF annualRate = Zero THEN RDiv(principal, months)
  ELSE LET monthlyRate == RDiv(annualRate, I(12))
           factor == MathPow(RAdd(One, monthlyRate), months)
       IN  RDiv(RMul(principal, RMul(monthlyRate, factor)), RSub(factor, One))

(***************************************************************************)
(* investmentCalculations.ts, calculations.ts: required contribution       *)
(***************************************************************************)
\* the payment of an annuity paid at the start of each period
calculateRequiredMonthlyInvestment_due(currentAmount, targetAmount, years, annualReturn) ==
  IF RLe(years, Zero) THEN Zero
  ELSE LET monthlyReturn == RDiv(annualReturn, I(12))
           totalMonths == RMul(years, I(12))
           futureValueOfCurrent ==
             RMul(currentAmount, MathPow(RAdd(One, monthlyReturn), totalMonths))
           requiredFromInvestment == RSub(targetAmount, futureValueOfCurrent)
       IN  IF RLe(requiredFromInvestment, Zero) THEN Zero
           ELSE IF monthlyReturn = Zero THEN RDiv(requiredFromInvestment, totalMonths)
           ELSE RDiv(RDiv(RMul(requiredFromInvestment, monthlyReturn),
                          RSub(MathPow(RAdd(One, monthlyReturn), totalMonths), One)),
                     RAdd(One, monthlyReturn))

calculateRequiredMonthlyInvestment(currentAmount, targetAmount, years, annualReturn) ==
  IF RLe(years, Zero) THEN Zero
  ELSE LET monthlyReturn == RDiv(annualReturn, I(12))
           totalMonths == RMul(years, I(12))
           futureValueOfCurrent ==
             RMul(currentAmount, MathPow(RAdd(One, monthlyReturn), totalMonths))
           requiredFromInvestment == RSub(targetAmount, futureValueOfCurrent)
       IN  IF RLe(requiredFromInvestment, Zero) THEN Zero
           ELSE IF monthlyReturn = Zero THEN RDiv(requiredFromInvestment, totalMonths)
           ELSE RDiv(RMul(requiredFromInvestment, monthlyReturn),
                     RSub(MathPow(RAdd(One, monthlyReturn), totalMonths), One))

\* principal * (1 + rate)^periods, periods in years
compoundInterest(principal, rate, periods) ==
  RMul(principal, MathPow(RAdd(One, rate), periods))

calculateRequiredMonthlyPayment(targetAmount, currentAmount, rate, years) ==
  LET futureValueOfCurrent == compoundInterest(currentAmount, rate, years)
      requiredFromSavings == RSub(targetAmount, futureValueOfCurrent)
  IN  IF RLe(requiredFromSavings, Zero) THEN Zero
      ELSE LET monthlyRate == RDiv(rate, I(12))
               totalMonths == RMul(years, I(12))
           IN  IF rate = Zero THEN RDiv(requiredFromSavings, totalMonths)
               ELSE RDiv(RMul(requiredFromSavings, monthlyRate),
                         RSub(MathPow(RAdd(One, monthlyRate), totalMonths), One))

(***************************************************************************)
(* calculations.ts, investmentCalculations.ts: future values               *)
(***************************************************************************)
\* the future value of level payments without the branch for a rate of 0
futureValueAnnuity_noZeroBranch(payment, rate, periods) ==
  RMul(payment, RDiv(RSub(MathPow(RAdd(One, rate), periods), One), rate))

futureValueAnnuity(payment, rate, periods) ==
  IF rate = Zero THEN RMul(payment, periods)
  ELSE RMul(payment, RDiv(RSub(MathPow(RAdd(One, rate), periods), One), rate))

calculateFutureValue(currentAmount, monthlyInvestment, annualReturn, years) ==
  LET monthlyReturn == RDiv(annualReturn, I(12))
      totalMonths == RMul(years, I(12))
      futureValueOfCurrent ==
        RMul(currentAmount, MathPow(RAdd(One, monthlyReturn), totalMonths))
      futureValueOfInvestments ==
        IF monthlyReturn = Zero THEN RMul(monthlyInvestment, totalMonths)
        ELSE RDiv(RMul(monthlyInvestment,
                       RSub(MathPow(RAdd(One, monthlyReturn), totalMonths), One)),
                  monthlyReturn)
  IN  RAdd(futureValueOfCurrent, futureValueOfInvestments)

(***************************************************************************)
(* purchaseCalculations.ts: paying in full against financing               *)
(***************************************************************************)
\* one pass of the for loop of calculateOpportunityAnalysis: the test
\* month <= months and, when it holds, the body and month++
OpportunityStep(s, initialAmount, monthlyInvestment, monthlyReturn, months) ==
  IF ~RLe(I(s.month), months) THEN s
  ELSE LET investmentValue ==
             RAdd(RMul(s.investmentValue, RAdd(One, monthlyReturn)), monthlyInvestment)
           cumulativeMonthlyInvestment ==
             RAdd(s.cumulativeMonthlyInvestment, monthlyInvestment)
       IN  [month |-> s.month + 1,
            investmentValue |-> investmentValue,
            cumulativeMonthlyInvestment |-> cumulativeMonthlyInvestment,
            totalInvested |-> RAdd(initialAmount, cumulativeMonthlyInvestment),
            monthlyProjections |->
              Append(s.monthlyProjections,
                     [month |-> s.month,
                      investmentContribution |-> monthlyInvestment,
                      investmentValue |-> MathRound(investmentValue),
                      netWorth |-> MathRound(investmentValue)])]

RECURSIVE OpportunityLoop(_, _, _, _, _)
OpportunityLoop(s, initialAmount, monthlyInvestment, monthlyReturn, months) ==
  IF ~RLe(I(s.month), months) THEN s
  ELSE OpportunityLoop(OpportunityStep(s, initialAmount, monthlyInvestment,
                                       monthlyReturn, months),
                       initialAmount, monthlyInvestment, monthlyReturn, months)

\* the analysis with its returns measured against the contributions alone,
\* the initial amount left out
calculateOpportunityAnalysis_grossReturns(initialAmount, monthlyInvestment, annualReturn, months) ==
  LET monthlyReturn == RDiv(annualReturn, I(12))
      s == OpportunityLoop([month |-> 1,
                            investmentValue |-> initialAmount,
                            cumulativeMonthlyInvestment |-> Zero,
                            totalInvested |-> initialAmount,
                            monthlyProjections |-> <<>>],
                           initialAmount, monthlyInvestment, monthlyReturn, months)
      finalValue == MathRound(s.investmentValue)
      investmentReturns == RSub(finalValue, s.cumulativeMonthlyInvestment)
  IN  [totalInvested |-> MathRound(s.totalInvested),
       investmentReturns |-> MathRound(investmentReturns),
       finalValue |-> finalValue,
       monthlyProjections |-> s.monthlyProjections]

calculateOpportunityAnalysis(initialAmount, monthlyInvestment, annualReturn, months) ==
  LET monthlyReturn == RDiv(annualReturn, I(12))
      s == OpportunityLoop([month |-> 1,
                            investmentValue |-> initialAmount,
                            cumulativeMonthlyInvestment |-> Zero,
                            totalInvested |-> initialAmount,
                            monthlyProjections |-> <<>>],
                           initialAmount, monthlyInvestment, monthlyReturn, months)
      finalValue == MathRound(s.investmentValue)
      investmentReturns == RSub(finalValue, s.totalInvested)
  IN  [totalInvested |-> MathRound(s.totalInvested),
       investmentReturns |-> MathRound(investmentReturns),
       finalValue |-> finalValue,
       monthlyProjections |-> s.monthlyProjections]

\* paying in full with the savings left over not clamped at 0
calculateLumpSumScenario_unclamped(productPrice, currentSavings, investmentReturn, projectedYears, monthlyInvestment) ==
  LET remainingSavings == RSub(currentSavings, productPrice)
      months == MathRound(RMul(projectedYears, I(12)))
      opportunity == calculateOpportunityAnalysis(remainingSavings, monthlyInvestment,
                                                  investmentReturn, months)
  IN  [paymentMethod |-> "lump_sum",
       initialPayment |-> productPrice,
       remainingSavings |-> remainingSavings,
       investmentReturn |-> investmentReturn,
       projectedYears |-> projectedYears,
       monthlyInvestment |-> monthlyInvestment,
       finalAssets |-> opportunity.finalValue,
       totalCost |-> productPrice,
       opportunity |-> opportunity]

calculateLumpSumScenario(productPrice, currentSavings, investmentReturn, projectedYears, monthlyInvestment) ==
  LET remainingSavings == MathMax(Zero, RSub(currentSavings, productPrice))
      months == MathRound(RMul(projectedYears, I(12)))
      opportunity == calculateOpportunityAnalysis(remainingSavings, monthlyInvestment,
                                                  investmentReturn, months)
  IN  [paymentMethod |-> "lump_sum",
       initialPayment |-> productPrice,
       remainingSavings |-> remainingSavings,
       investmentReturn |-> investmentReturn,
       projectedYears |-> projectedYears,
       monthlyInvestment |-> monthlyInvestment,
       finalAssets |-> opportunity.finalValue,
       totalCost |-> productPrice,
       opportunity |-> opportunity]

\* the interest of a single payment in place of that of the whole term
totalInterest_onePayment(monthlyPayment, loanTermMonths, loanAmount) ==
  RSub(monthlyPayment, loanAmount)

\* what the loan costs beyond its principal
totalInterest(monthlyPayment, loanTermMonths, loanAmount) ==
  RSub(RMul(monthlyPayment, loanTermMonths), loanAmount)

\* the capacity left after the loan payment, without its clamp at 0
netMonthlyInvestment_unclamped(additionalMonthlyInvestment, monthlyPayment) ==
  RSub(additionalMonthlyInvestment, monthlyPayment)

\* the capacity left for investing after the loan payment
netMonthlyInvestment(additionalMonthlyInvestment, monthlyPayment) ==
  MathMax(Zero, RSub(additionalMonthlyInvestment, monthlyPayment))

\* the pass of the second loop with the net worth taken from the rounded
\* balance of the point
EnhanceStep_roundedBalance(s, projections, monthlyPayment, loanInterestRate, loanTermMonths, months) ==
  IF ~RLe(I(s.month), months) THEN s
  ELSE LET originalProjection == projections[s.month]
           inTerm == RLe(I(s.month), loanTermMonths)
           interestPayment == RMul(s.loanBalance, RDiv(loanInterestRate, I(12)))
           principalPayment == RSub(monthlyPayment, interestPayment)
           loanBalance == IF inTerm
                          THEN MathMax(Zero, RSub(s.loanBalance, principalPayment))
                          ELSE s.loanBalance
       IN  [month |-> s.month + 1,
            loanBalance |-> loanBalance,
            enhancedProjections |->
              Append(s.enhancedProjections,
                     [month |-> originalProjection.month,
                      investmentContribution |-> originalProjection.investmentContribution,
                      investmentValue |-> originalProjection.investmentValue,
                      loanBalance |-> IF inTerm THEN MathRound(loanBalance) ELSE Zero,
                      loanPayment |-> IF inTerm THEN MathRound(monthlyPayment) ELSE Zero,
                      netWorth |->
                        MathRound(RSub(originalProjection.investmentValue,
                                       IF inTerm THEN MathRound(loanBalance) ELSE Zero))])]

\* one pass of the second for loop of calculateLoanScenario: the loan balance
\* laid over the month's point of the opportunity track
EnhanceStep(s, projections, monthlyPayment, loanInterestRate, loanTermMonths, months) ==
  IF ~RLe(I(s.month), months) THEN s
  ELSE LET originalProjection == projections[s.month]
           inTerm == RLe(I(s.month), loanTermMonths)
           interestPayment == RMul(s.loanBalance, RDiv(loanInterestRate, I(12)))
           principalPayment == RSub(monthlyPayment, interestPayment)
           loanBalance == IF inTerm
                          THEN MathMax(Zero, RSub(s.loanBalance, principalPayment))
                          ELSE s.loanBalance
       IN  [month |-> s.month + 1,
            loanBalance |-> loanBalance,
            enhancedProjections |->
              Append(s.enhancedProjections,
                     [month |-> originalProjection.month,
                      investmentContribution |-> originalProjection.investmentContribution,
                      investmentValue |-> originalProjection.investmentValue,
                      loanBalance |-> IF inTerm THEN MathRound(loanBalance) ELSE Zero,
                      loanPayment |-> IF inTerm THEN MathRound(monthlyPayment) ELSE Zero,
                      netWorth |->
                        MathRound(RSub(originalProjection.investmentValue,
                                       IF inTerm THEN loanBalance ELSE Zero))])]

RECURSIVE EnhanceLoop(_, _, _, _, _, _)
EnhanceLoop(s, projections, monthlyPayment, loanInterestRate, loanTermMonths, months) ==
  IF ~RLe(I(s.month), months) THEN s
  ELSE EnhanceLoop(EnhanceStep(s, projections, monthlyPayment, loanInterestRate,
                               loanTermMonths, months),
                   projections, monthlyPayment, loanInterestRate, loanTermMonths, months)

calculateLoanScenario(productPrice, currentSavings, downPaymentPercentage, loanInterestRate, loanTermMonths, investmentReturn, projectedYears, additionalMonthlyInvestment) ==
  LET downPayment == RMul(productPrice, RDiv(downPaymentPercentage, I(100)))
      loanAmount == RSub(productPrice, downPayment)
      monthlyPayment == calculateMonthlyLoanPayment(loanAmount, loanInterestRate,
                                                    loanTermMonths)
      interest == totalInterest(monthlyPayment, loanTermMonths, loanAmount)
      totalCost == RAdd(productPrice, interest)
      remainingSavings == MathMax(Zero, RSub(currentSavings, downPayment))
      months == MathRound(RMul(projectedYears, I(12)))
      net == netMonthlyInvestment(additionalMonthlyInvestment, monthlyPayment)
      opportunity == calculateOpportunityAnalysis(remainingSavings, net,
                                                  investmentReturn, months)
      enhanced == EnhanceLoop([month |-> 1,
                               loanBalance |-> loanAmount,
                               enhancedProjections |-> <<>>],
                              opportunity.monthlyProjections, monthlyPayment,
                              loanInterestRate, loanTermMonths, months)
  IN  [paymentMethod |-> "loan",
       downPayment |-> MathRound(downPayment),
       loanAmount |-> MathRound(loanAmount),
       interestRate |-> loanInterestRate,
       loanTermMonths |-> loanTermMonths,
       monthlyPayment |-> MathRound(monthlyPayment),
       totalInterest |-> MathRound(interest),
       totalCost |-> MathRound(totalCost),
       remainingSavings |-> MathRound(remainingSavings),
       investmentReturn |-> investmentReturn,
       monthlyInvestment |-> net,
       finalAssets |-> opportunity.finalValue,
       opportunity |-> [opportunity EXCEPT
                          !.monthlyProjections = enhanced.enhancedProjections]]

\* the comparison with a tie going to paying in full
recommendation_tieLumpSum(totalDifference) ==
  IF RGe(totalDifference, Zero) THEN "lump_sum" ELSE "loan"

\* the branch preferred for a signed gap between the two net worths
recommendation(totalDifference) ==
  IF RGt(totalDifference, Zero) THEN "lump_sum" ELSE "loan"

\* lines 231-247 of calculatePurchaseSimulation: the verdict on the two
\* scenarios, and the record returned
PurchaseVerdict(goalId, productName, productPrice, currentSavings, lumpSumScenario, loanScenario) ==
  LET lumpSumNetWorth == lumpSumScenario.finalAssets
      loanNetWorth == RSub(loanScenario.finalAssets,
                           RSub(loanScenario.totalCost, productPrice))
      totalDifference == RSub(lumpSumNetWorth, loanNetWorth)
  IN  [goalId |-> goalId,
       productName |-> productName,
       productPrice |-> productPrice,
       currentSavings |-> currentSavings,
       lumpSumScenario |-> lumpSumScenario,
       loanScenario |-> loanScenario,
       recommendation |-> recommendation(totalDifference),
       totalDifference |-> MathRound(IF RLt(totalDifference, Zero)
                                     THEN RNeg(totalDifference) ELSE totalDifference)]

calculatePurchaseSimulation(goalId, productName, productPrice, currentSavings, loanTerms, investmentReturn, projectedYears, monthlyInvestmentCapacity) ==
  PurchaseVerdict(goalId, productName, productPrice, currentSavings,
                  calculateLumpSumScenario(productPrice, currentSavings, investmentReturn,
                                           projectedYears, monthlyInvestmentCapacity),
                  calculateLoanScenario(productPrice, currentSavings,
                                        loanTerms.downPaymentPercentage,
                                        loanTerms.interestRate, loanTerms.termMonths,
                                        investmentReturn, projectedYears,
                                        monthlyInvestmentCapacity))

\* the gain measured against the initial investment instead of the cost
calculateROI_onInvestment(initialInvestment, finalAssets, totalCost) ==
  IF RLe(totalCost, Zero) THEN Zero
  ELSE RMul(RDiv(RSub(finalAssets, totalCost), initialInvestment), I(100))

calculateROI(initialInvestment, finalAssets, totalCost) ==
  IF RLe(totalCost, Zero) THEN Zero
  ELSE RMul(RDiv(RSub(finalAssets, totalCost), totalCost), I(100))

\* lines 310-316 of calculateROIForDownPayment: the roi of a scenario, and the
\* pair returned
ROIOfScenario(currentSavings, loanScenario) ==
  [roi |-> calculateROI(currentSavings, loanScenario.finalAssets, loanScenario.totalCost),
   scenario |-> loanScenario]

\* The try block cannot throw: it only does arithmetic on numbers, so the
\* catch branch (roi -Infinity, scenario null) is never taken.
calculateROIForDownPayment(productPrice, currentSavings, downPaymentPercentage, loanInterestRate, loanTermMonths, investmentReturn, projectedYears, monthlyInvestmentCapacity) ==
  ROIOfScenario(currentSavings,
                calculateLoanScenario(productPrice, currentSavings, downPaymentPercentage,
                                      loanInterestRate, loanTermMonths, investmentReturn,
                                      projectedYears, monthlyInvestmentCapacity))

\* a down payment that uses up the savings counted as out of reach
feasible_strict(requiredDownPayment, currentSavings) ==
  RLt(requiredDownPayment, currentSavings)

\* whether the savings cover the down payment
feasible(requiredDownPayment, currentSavings) ==
  RLe(requiredDownPayment, currentSavings)

\* the branch with a tie going to the later percentage
FeasibleBranch_keepsLast(s, r) ==
  LET better == RGe(r.roi, s.maxROI)
  IN  [dp |-> RAdd(s.dp, One),
       maxROI |-> IF better THEN r.roi ELSE s.maxROI,
       optimalDownPayment |-> IF better THEN s.dp ELSE s.optimalDownPayment,
       roiAnalysis |->
         Append(s.roiAnalysis,
                [downPayment |-> s.dp,
                 roi |-> r.roi,
                 finalAssets |-> OrElse(r.scenario.finalAssets, Zero),
                 totalCost |-> OrElse(r.scenario.totalCost, Zero),
                 monthlyPayment |-> OrElse(r.scenario.monthlyPayment, Zero),
                 feasible |-> TRUE])]

\* the branch that keeps the first feasible percentage whatever follows
FeasibleBranch_keepsFirst(s, r) ==
  LET better == s.maxROI = NegInfinity
  IN  [dp |-> RAdd(s.dp, One),
       maxROI |-> IF better THEN r.roi ELSE s.maxROI,
       optimalDownPayment |-> IF better THEN s.dp ELSE s.optimalDownPayment,
       roiAnalysis |->
         Append(s.roiAnalysis,
                [downPayment |-> s.dp,
                 roi |-> r.roi,
                 finalAssets |-> OrElse(r.scenario.finalAssets, Zero),
                 totalCost |-> OrElse(r.scenario.totalCost, Zero),
                 monthlyPayment |-> OrElse(r.scenario.monthlyPayment, Zero),
                 feasible |-> TRUE])]

\* the feasible branch of the loop body, r being the roi and scenario of the
\* percentage: its entry, the update of the running maximum, and dp += 1
FeasibleBranch(s, r) ==
  LET better == RGt(r.roi, s.maxROI)
  IN  [dp |-> RAdd(s.dp, One),
       maxROI |-> IF better THEN r.roi ELSE s.maxROI,
       optimalDownPayment |-> IF better THEN s.dp ELSE s.optimalDownPayment,
       roiAnalysis |->
         Append(s.roiAnalysis,
                [downPayment |-> s.dp,
                 roi |-> r.roi,
                 finalAssets |-> OrElse(r.scenario.finalAssets, Zero),
                 totalCost |-> OrElse(r.scenario.totalCost, Zero),
                 monthlyPayment |-> OrElse(r.scenario.monthlyPayment, Zero),
                 feasible |-> TRUE])]

\* the other branch: the entry of a percentage out of reach, and dp += 1
InfeasibleBranch(s) ==
  [s EXCEPT
     !.dp = RAdd(s.dp, One),
     !.roiAnalysis =
        Append(s.roiAnalysis,
               [downPayment |-> s.dp,
                roi |-> NegInfinity,
                finalAssets |-> Zero,
                totalCost |-> Zero,
                monthlyPayment |-> Zero,
                feasible |-> FALSE])]

\* one pass of the for loop of findOptimalDownPaymentForROI: the test
\* dp <= maxDownPayment and, when it holds, the body and dp += 1
SweepStep(s, productPrice, currentSavings, loanInterestRate, loanTermMonths, investmentReturn, projectedYears, monthlyInvestmentCapacity, maxDownPayment) ==
  IF ~RLe(s.dp, maxDownPayment) THEN s
  ELSE IF feasible(RMul(productPrice, RDiv(s.dp, I(100))), currentSavings)
       THEN FeasibleBranch(s, calculateROIForDownPayment(
                                productPrice, currentSavings, s.dp, loanInterestRate,
                                loanTermMonths, investmentReturn, projectedYears,
                                monthlyInvestmentCapacity))
       ELSE InfeasibleBranch(s)

RECURSIVE SweepLoop(_, _, _, _, _, _, _, _, _)
SweepLoop(s, productPrice, currentSavings, loanInterestRate, loanTermMonths, investmentReturn, projectedYears, monthlyInvestmentCapacity, maxDownPayment) ==
  IF ~RLe(s.dp, maxDownPayment) THEN s
  ELSE SweepLoop(SweepStep(s, productPrice, currentSavings, loanInterestRate,
                           loanTermMonths, investmentReturn, projectedYears,
                           monthlyInvestmentCapacity, maxDownPayment),
                 productPrice, currentSavings, loanInterestRate, loanTermMonths,
                 investmentReturn, projectedYears, monthlyInvestmentCapacity,
                 maxDownPayment)

findOptimalDownPaymentForROI(productPrice, currentSavings, loanInterestRate, loanTermMonths, investmentReturn, projectedYears, monthlyInvestmentCapacity, minDownPayment, maxDownPayment) ==
  LET s == SweepLoop([dp |-> minDownPayment,
                      maxROI |-> NegInfinity,
                      optimalDownPayment |-> minDownPayment,
                      roiAnalysis |-> <<>>],
                     productPrice, currentSavings, loanInterestRate, loanTermMonths,
                     investmentReturn, projectedYears, monthlyInvestmentCapacity,
                     maxDownPayment)
  IN  [optimalDownPayment |-> s.optimalDownPayment,
       maxROI |-> s.maxROI,
       roiAnalysis |-> s.roiAnalysis]

(***************************************************************************)
(* purchaseCalculations.ts: suggested loan terms                           *)
(***************************************************************************)
\* the longest term tried, in months, and the step between the terms
LongestTerm == 360

TermStep == 12

\* Math.min(...availableRates) for a list of rates that is not empty
RECURSIVE MinOf(_)
MinOf(rates) ==
  IF Len(rates) = 1 THEN rates[1] ELSE MathMin(rates[1], MinOf(Tail(rates)))

\* the for loop of suggestOptimalLoanTerms from the term months on: the first
\* term whose payment fits the budget, and optimalTerm as it was when none does
RECURSIVE TermLoop(_, _, _, _, _)
TermLoop(months, optimalTerm, productPrice, monthlyBudget, bestRate) ==
  IF months > LongestTerm THEN optimalTerm
  ELSE LET payment == calculateMonthlyLoanPayment(RMul(productPrice, Frac(8, 10)),
                                                  bestRate, I(months))
       IN  IF RLe(payment, RMul(monthlyBudget, Frac(8, 10))) THEN months
           ELSE TermLoop(months + TermStep, optimalTerm, productPrice,
                         monthlyBudget, bestRate)

suggestOptimalLoanTerms(productPrice, monthlyBudget, availableRates) ==
  LET bestRate == MinOf(availableRates)
      optimalTerm == TermLoop(12, 12, productPrice, monthlyBudget, bestRate)
      downPaymentPercentage == I(20)
      loanAmount == RMul(productPrice, RSub(One, RDiv(downPaymentPercentage, I(100))))
      monthlyPayment == calculateMonthlyLoanPayment(loanAmount, bestRate, I(optimalTerm))
  IN  [interestRate |-> bestRate,
       termMonths |-> I(optimalTerm),
       downPaymentPercentage |-> downPaymentPercentage,
       monthlyPayment |-> MathRound(monthlyPayment)]

(***************************************************************************)
(* validators.ts, GoalForm.tsx: the goal form                              *)
(***************************************************************************)
\* parseFloat on the texts the form is given: the number a text starts with,
\* NaN when it starts with none
parseFloat(text) ==
  CASE text = "0" -> I(0)
    [] text = "1" -> I(1)
    [] text = "3" -> I(3)
    [] text = "3abc" -> I(3)
    [] text = "-1" -> I(-1)
    [] OTHER -> NaN

\* Number.prototype.toString on the amounts a goal can hold
toString(x) ==
  CASE x = I(0) -> "0"
    [] x = I(1) -> "1"
    [] x = I(3) -> "3"
    [] x = I(-1) -> "-1"
    [] OTHER -> "NaN"

\* new Date(text).getTime() in years: NaN for a text that is no date
getTime(text) ==
  CASE text = "2000-01-01" -> I(2000)
    [] text = "2999-01-01" -> I(2999)
    [] OTHER -> NaN

\* the start of the day the form is used on, in years
today == I(2026)

\* the highest amount the form accepts: 999999999999 in validateAmount, beyond
\* the integers of the model, whose amounts are far below either ceiling
AmountCeiling == I(999999999)

\* the validators return a message or null: here, whether they return a message
validateRequired(value) == value = ""

validateAmount(amount) ==
  LET numAmount == parseFloat(amount)
  IN  IF IsNaN(numAmount) THEN TRUE
      ELSE IF RLt(numAmount, Zero) THEN TRUE
      ELSE IF RGt(numAmount, AmountCeiling) THEN TRUE
      ELSE FALSE

validateFutureDate(date) == RLe(getTime(date), today)

\* validateForm without the comparison of the two amounts
validateForm_noComparison(data) ==
  {f \in {"title"} : validateRequired(data.title)}
  \cup {f \in {"targetAmount"} : validateAmount(data.targetAmount)}
  \cup {f \in {"currentAmount"} : validateAmount(data.currentAmount)}
  \cup {f \in {"deadline"} : validateFutureDate(data.deadline)}

\* validateForm: the fields of newErrors; the form is valid when there is none
validateForm(data) ==
  LET targetAmount == parseFloat(data.targetAmount)
      currentAmount == parseFloat(data.currentAmount)
  IN  {f \in {"title"} : validateRequired(data.title)}
      \cup {f \in {"targetAmount"} : validateAmount(data.targetAmount)}
      \cup {f \in {"currentAmount"} : validateAmount(data.currentAmount)}
      \cup {f \in {"deadline"} : validateFutureDate(data.deadline)}
      \cup {f \in {"targetAmount"} :
              /\ ~IsNaN(targetAmount)
              /\ ~IsNaN(currentAmount)
              /\ RLe(targetAmount, currentAmount)}

\* the initial formData of GoalForm: that of the goal edited, empty without one
initialFormData(goal) ==
  IF goal = <<>>
  THEN [title |-> "", targetAmount |-> "", currentAmount |-> "", deadline |-> "",
        category |-> "other", priority |-> "medium"]
  ELSE [title |-> goal.title,
        targetAmount |-> toString(goal.targetAmount),
        currentAmount |-> toString(goal.currentAmount),
        deadline |-> goal.deadline,
        category |-> goal.category,
        priority |-> goal.priority]

\* the goalData handed to onSubmit
goalDataOf(data) ==
  [title |-> data.title,
   targetAmount |-> parseFloat(data.targetAmount),
   currentAmount |-> parseFloat(data.currentAmount),
   deadline |-> data.deadline,
   category |-> data.category,
   priority |-> data.priority]

(***************************************************************************)
(* Dashboard: the list of goals                                            *)
(***************************************************************************)
\* { ...goalData, id, createdAt, updatedAt }
withStamps(goalData, id, createdAt, updatedAt) ==
  [id |-> id, title |-> goalData.title,
   targetAmount |-> goalData.targetAmount, currentAmount |-> goalData.currentAmount,
   deadline |-> goalData.deadline, category |-> goalData.category,
   priority |-> goalData.priority, createdAt |-> createdAt, updatedAt |-> updatedAt]

\* an edit that overwrites every goal of the list
updateGoals_everyGoal(prev, editing, goalData, now) ==
  [i \in DOMAIN prev |-> withStamps(goalData, editing.id, editing.createdAt, now)]

\* prev.map(...) of handleSaveGoal: the goal with the id of the edited one is
\* replaced, its id and createdAt kept
updateGoals(prev, editing, goalData, now) ==
  [i \in DOMAIN prev |->
     IF prev[i].id = editing.id
     THEN withStamps(goalData, editing.id, editing.createdAt, now)
     ELSE prev[i]]

\* prev.filter(goal => goal.id !== goalId)
removeGoal(prev, goalId) == SelectSeq(prev, LAMBDA goal : goal.id # goalId)

(***************************************************************************)
(* Inputs                                                                  *)
(***************************************************************************)
MaxAmount == 3

MaxInvestment == 2

MaxReturnStep == 3

\* amounts: small ones, and one that a unit contribution cannot reach within
\* the ceiling of the horizon solver
Amounts == {I(k) : k \in 0..MaxAmount} \cup {I(MaxMonths + 1)}

\* monthly contributions, negative and zero included
Investments == {I(k) : k \in -1..MaxInvestment}

\* annual returns whose monthly rate is a whole number (negative, zero and
\* positive)
Returns == {I(12 * k) : k \in -MaxReturnStep..MaxReturnStep}

\* the trajectory is drawn for fewer inputs than the horizon is solved for
SimulationAmounts == {I(0), I(1), I(MaxAmount), I(MaxMonths + 1)}

SimulationReturns == {I(-12), I(0), I(12)}

\* its contributions: those of the horizon solver, and half a unit
SimulationInvestments == Investments \cup {Frac(1, 2)}

MaxPrincipal == 3

MaxTermMonths == 12

\* principals: small ones, and that of the repository's zero-rate test
Principals == {I(k) : k \in 0..MaxPrincipal} \cup {I(1200)}

\* annual loan rates: 0, 12%, 600% and 1200% (monthly 0, 1/100, 1/2 and 1)
LoanRates == {Zero, Frac(12, 100), I(6), I(12)}

\* terms in whole months
Terms == 1..MaxTermMonths

\* the powers of 101/100 and the products with the large principal are kept
\* within the range of exact arithmetic
LoanInput(principal, rate, months) ==
  /\ rate = Frac(12, 100) => months <= 3
  /\ principal = I(1200) => rate = Zero

MaxHorizonMonths == 12

\* horizons of calculateRequiredMonthlyInvestment in whole months, 0 included
HorizonMonths == 0..MaxHorizonMonths

\* annual returns: 0, 12%, 600% and 1200% (monthly 0, 1/100, 1/2 and 1)
RequiredReturns == {Zero, Frac(12, 100), I(6), I(12)}

\* the powers of 101/100 and of 3/2, and their products with the large
\* target, are kept within the range of exact arithmetic
RequiredInput(targetAmount, annualReturn, months) ==
  /\ annualReturn = Frac(12, 100) => (months <= 3 /\ RLe(targetAmount, I(MaxAmount)))
  /\ annualReturn = I(6) => months <= 8

\* payments of futureValueAnnuity: negative, zero, whole, and one that is not
AnnuityPayments == Investments \cup {Frac(1, 2)}

\* monthly rates of futureValueAnnuity: -100%, 0, 1%, 50% and 100%
AnnuityRates == {I(-1), Zero, Frac(1, 100), Frac(1, 2), One}

\* the powers of 101/100 and of 3/2 are kept within the range of exact
\* arithmetic
AnnuityInput(rate, periods) ==
  /\ rate = Frac(1, 100) => periods <= 3
  /\ rate = Frac(1, 2) => periods <= 8

\* calculateRequiredMonthlyPayment compounds the current amount by the year:
\* its horizons are whole years, and its rates 0 and 1200% (monthly 1)
PaymentYears == {I(0), I(1)}

PaymentRates == {Zero, I(12)}

\* targets: those of the horizon solver, and one above a unit amount
\* compounded monthly at 1200% over a year (2^12)
PaymentTargets == Amounts \cup {I(5000)}

\* starting balances of the bands: those of the horizon solver below its
\* ceiling, and a debt
ScenarioCurrents == {I(k) : k \in -1..MaxAmount}

ScenarioTargets == {I(k) : k \in 0..MaxAmount}

\* expected annual returns: -15%, 0, 1%, 15% and 1200%; the bands around them
\* have the monthly rates 1/1200, -1/80, 0, 1/75, 1/80, 1/40, 79/80, 1, 81/80
ScenarioReturns == {Frac(-15, 100), Zero, Frac(1, 100), Frac(15, 100), I(12)}

\* the powers of 1201/1200 and of the other monthly rates stay within the
\* range of exact arithmetic while a band is solved in a few periods: the
\* target lies within two contributions of the start, and a debt is paid off
\* by the first contribution
ScenarioInput(c, t, m, e) ==
  RGt(m, Zero) =>
    IF RLt(c, Zero) THEN RLt(RSub(t, c), RMul(I(2), m)) /\ RGe(m, I(2))
    ELSE RLe(RSub(t, c), RMul(I(2), m))

MaxPrice == 2

MaxLoanTermMonths == 3

MaxAnalysisMonths == 3

\* product prices: small whole ones, one that is not whole, and a larger one
Prices == {I(k) : k \in 1..MaxPrice} \cup {Frac(12, 5), I(100)}

\* savings: none, a small price, and half the larger price
Savings == {I(0), I(MaxPrice), I(50)}

\* down payments in percent of the price
DownPaymentPercentages == {I(0), I(10), I(50), I(100)}

\* annual loan rates and investment returns: 0 and 1200% (monthly 0 and 1)
PurchaseRates == {Zero, I(12)}

\* loan terms in whole months
PurchaseTerms == {I(n) : n \in 1..MaxLoanTermMonths}

\* analysis horizons in years: none, one and a half months, and whole months
AnalysisYears == {Frac(0, 12), Frac(1, 8), Frac(MaxAnalysisMonths, 12)}

\* monthly investment capacities: negative, none, small, and one above the
\* payments of the larger price
Capacities == {I(-1), I(0), I(MaxInvestment), I(60)}

\* the ranges of the down-payment sweep: the default, and shorter ones
SweepRanges == {<<I(0), I(100)>>, <<I(0), I(0)>>, <<I(49), I(51)>>}

SweepPrices == {I(MaxPrice), I(100)}

SweepSavings == {I(0), I(1), I(50)}

SweepTerms == {I(MaxLoanTermMonths)}

SweepYears == {Frac(0, 12), Frac(MaxAnalysisMonths - 1, 12)}

SweepCapacities == {I(0), I(60)}

MaxBudget == 10

\* prices of suggestOptimalLoanTerms: those of the comparison, and a larger one
SuggestPrices == Prices \cup {I(1000)}

\* monthly budgets: none, small ones, one between two, and large ones
Budgets == {I(k) : k \in 0..MaxBudget} \cup {Frac(17, 2), I(200), I(2000)}

\* the lists of available rates: 0 alone and among others, and 1200% and
\* 2400% a year (monthly 1 and 2)
RateLists == {<<Zero>>, <<I(12), Zero, I(24)>>, <<I(12)>>, <<I(24), I(12)>>}

\* at a rate above 0 the powers of the longer terms are beyond the range of
\* exact arithmetic: the budget then fits the first term
SuggestInput(productPrice, monthlyBudget, availableRates) ==
  MinOf(availableRates) # Zero =>
    RLe(calculateMonthlyLoanPayment(RMul(productPrice, Frac(8, 10)),
                                    MinOf(availableRates), I(12)),
        RMul(monthlyBudget, Frac(8, 10)))

\* the goals the list holds at most, and the saves the clock counts
MaxGoals == 2

MaxSaves == 3

\* texts typed into the fields; a field never typed into holds the empty text
\* target amounts: amounts, and an amount followed by letters
TargetTexts == {"1", "3abc"}

\* current amounts: a negative amount, and amounts
CurrentTexts == {"-1", "0", "3"}

TitleTexts == {"Home"}

\* deadlines: a date in the past, and a date to come
DeadlineTexts == {"2000-01-01", "2999-01-01"}

FieldTexts(field) ==
  CASE field = "title" -> TitleTexts
    [] field = "targetAmount" -> TargetTexts
    [] field = "currentAmount" -> CurrentTexts
    [] field = "deadline" -> DeadlineTexts

Fields == {"title", "targetAmount", "currentAmount", "deadline"}

\* arguments of calculateROI: negative, zero and positive
MaxROIAmount == 3

ROIAmounts == {I(k) : k \in -1..MaxROIAmount} \cup {I(1000), I(1100)}

None == <<>>

(***************************************************************************)
(* The engine is stateless: every entry point takes its arguments and      *)
(* returns a fresh result.  pc = "idle" between calls; a call draws its    *)
(* arguments, runs the function to completion and leaves the result.       *)
(***************************************************************************)
Init ==
  /\ pc = "idle"
  /\ fn = "none"
  /\ args = None
  /\ result = None
  /\ goals = <<>>
  /\ showGoalForm = FALSE
  /\ editingGoal = None
  /\ formData = None
  /\ errors = {}
  /\ clock = 0
  /\ nextId = 1

CallInvestmentPeriod ==
  /\ pc = "idle"
  /\ \E c \in Amounts, t \in Amounts, m \in Investments, a \in Returns :
       /\ args' = [currentAmount |-> c, targetAmount |-> t,
                   monthlyInvestment |-> m, annualReturn |-> a]
       /\ result' = calculateInvestmentPeriod(c, t, m, a)
  /\ fn' = "calculateInvestmentPeriod"
  /\ pc' = "done"
  /\ UNCHANGED dashboard

\* a negative contribution under a positive rate can diverge without bound
\* over 600 periods; those inputs are left to the horizon solver alone
SimulationInput(c, t, m, a) ==
  RLt(m, Zero) => RLe(a, Zero)

CallInvestmentSimulation ==
  /\ pc = "idle"
  /\ \E c \in SimulationAmounts, t \in SimulationAmounts,
        m \in SimulationInvestments, a \in SimulationReturns :
       /\ SimulationInput(c, t, m, a)
       /\ args' = [currentAmount |-> c, targetAmount |-> t,
                   monthlyInvestment |-> m, annualReturn |-> a]
       /\ result' = calculateInvestmentSimulation(c, t, m, a)
  /\ fn' = "calculateInvestmentSimulation"
  /\ pc' = "done"
  /\ UNCHANGED dashboard

CallMonthlyPayment ==
  /\ pc = "idle"
  /\ \E principal \in Principals, rate \in LoanRates, n \in Terms :
       /\ LoanInput(principal, rate, n)
       /\ args' = [principal |-> principal, rate |-> rate, years |-> Frac(n, 12)]
       /\ result' = calculateMonthlyPayment(principal, rate, Frac(n, 12))
  /\ fn' = "calculateMonthlyPayment"
  /\ pc' = "done"
  /\ UNCHANGED dashboard

CallLoanDetails ==
  /\ pc = "idle"
  /\ \E principal \in Principals, rate \in LoanRates, n \in Terms :
       /\ LoanInput(principal, rate, n)
       /\ args' = [principal |-> principal, rate |-> rate, years |-> Frac(n, 12)]
       /\ result' = calculateLoanDetails(principal, rate, Frac(n, 12))
  /\ fn' = "calculateLoanDetails"
  /\ pc' = "done"
  /\ UNCHANGED dashboard

CallMonthlyLoanPayment ==
  /\ pc = "idle"
  /\ \E principal \in Principals, annualRate \in LoanRates, n \in Terms :
       /\ LoanInput(principal, annualRate, n)
       /\ args' = [principal |-> principal, annualRate |-> annualRate, months |-> I(n)]
       /\ result' = calculateMonthlyLoanPayment(principal, annualRate, I(n))
  /\ fn' = "calculateMonthlyLoanPayment"
  /\ pc' = "done"
  /\ UNCHANGED dashboard

CallRequiredMonthlyInvestment ==
  /\ pc = "idle"
  /\ \E c \in Amounts, t \in Amounts, n \in HorizonMonths, a \in RequiredReturns :
       /\ RequiredInput(t, a, n)
       /\ args' = [currentAmount |-> c, targetAmount |-> t,
                   years |-> Frac(n, 12), annualReturn |-> a]
       /\ result' = calculateRequiredMonthlyInvestment(c, t, Frac(n, 12), a)
  /\ fn' = "calculateRequiredMonthlyInvestment"
  /\ pc' = "done"
  /\ UNCHANGED dashboard

CallRequiredMonthlyPayment ==
  /\ pc = "idle"
  /\ \E t \in PaymentTargets, c \in Amounts, rate \in PaymentRates, years \in PaymentYears :
       /\ args' = [targetAmount |-> t, currentAmount |-> c,
                   rate |-> rate, years |-> years]
       /\ result' = calculateRequiredMonthlyPayment(t, c, rate, years)
  /\ fn' = "calculateRequiredMonthlyPayment"
  /\ pc' = "done"
  /\ UNCHANGED dashboard

CallFutureValueAnnuity ==
  /\ pc = "idle"
  /\ \E payment \in AnnuityPayments, rate \in AnnuityRates, n \in HorizonMonths :
       /\ AnnuityInput(rate, n)
       /\ args' = [payment |-> payment, rate |-> rate, periods |-> I(n)]
       /\ result' = futureValueAnnuity(payment, rate, I(n))
  /\ fn' = "futureValueAnnuity"
  /\ pc' = "done"
  /\ UNCHANGED dashboard

CallFutureValue ==
  /\ pc = "idle"
  /\ \E c \in Amounts, m \in Investments, n \in HorizonMonths, a \in RequiredReturns :
       /\ RequiredInput(c, a, n)
       /\ args' = [currentAmount |-> c, monthlyInvestment |-> m,
                   annualReturn |-> a, years |-> Frac(n, 12)]
       /\ result' = calculateFutureValue(c, m, a, Frac(n, 12))
  /\ fn' = "calculateFutureValue"
  /\ pc' = "done"
  /\ UNCHANGED dashboard

CallInvestmentScenarios ==
  /\ pc = "idle"
  /\ \E c \in ScenarioCurrents, t \in ScenarioTargets,
        m \in Investments, e \in ScenarioReturns :
       /\ ScenarioInput(c, t, m, e)
       /\ args' = [currentAmount |-> c, targetAmount |-> t,
                   monthlyInvestment |-> m, expectedReturn |-> e]
       /\ result' = calculateInvestmentScenarios(c, t, m, e)
  /\ fn' = "calculateInvestmentScenarios"
  /\ pc' = "done"
  /\ UNCHANGED dashboard

CallLumpSumScenario ==
  /\ pc = "idle"
  /\ \E price \in Prices, savings \in Savings, ret \in PurchaseRates,
        years \in AnalysisYears, capacity \in Capacities :
       /\ args' = [productPrice |-> price, currentSavings |-> savings,
                   investmentReturn |-> ret, projectedYears |-> years,
                   monthlyInvestment |-> capacity]
       /\ result' = calculateLumpSumScenario(price, savings, ret, years, capacity)
  /\ fn' = "calculateLumpSumScenario"
  /\ pc' = "done"
  /\ UNCHANGED dashboard

CallLoanScenario ==
  /\ pc = "idle"
  /\ \E price \in Prices, savings \in Savings, pct \in DownPaymentPercentages,
        rate \in PurchaseRates, term \in PurchaseTerms, ret \in PurchaseRates,
        years \in AnalysisYears, capacity \in Capacities :
       /\ args' = [productPrice |-> price, currentSavings |-> savings,
                   downPaymentPercentage |-> pct, loanInterestRate |-> rate,
                   loanTermMonths |-> term, investmentReturn |-> ret,
                   projectedYears |-> years,
                   additionalMonthlyInvestment |-> capacity]
       /\ result' = calculateLoanScenario(price, savings, pct, rate, term, ret,
                                          years, capacity)
  /\ fn' = "calculateLoanScenario"
  /\ pc' = "done"
  /\ UNCHANGED dashboard

CallPurchaseSimulation ==
  /\ pc = "idle"
  /\ \E price \in Prices, savings \in Savings, pct \in DownPaymentPercentages,
        rate \in PurchaseRates, term \in PurchaseTerms, ret \in PurchaseRates,
        years \in AnalysisYears, capacity \in Capacities :
       LET loanTerms == [downPaymentPercentage |-> pct, interestRate |-> rate,
                         termMonths |-> term]
       IN  /\ args' = [goalId |-> "goal", productName |-> "product",
                       productPrice |-> price, currentSavings |-> savings,
                       loanTerms |-> loanTerms, investmentReturn |-> ret,
                       projectedYears |-> years,
                       monthlyInvestmentCapacity |-> capacity]
           /\ result' = calculatePurchaseSimulation("goal", "product", price, savings,
                                                    loanTerms, ret, years, capacity)
  /\ fn' = "calculatePurchaseSimulation"
  /\ pc' = "done"
  /\ UNCHANGED dashboard

CallSuggestOptimalLoanTerms ==
  /\ pc = "idle"
  /\ \E price \in SuggestPrices, budget \in Budgets, rates \in RateLists :
       /\ SuggestInput(price, budget, rates)
       /\ args' = [productPrice |-> price, monthlyBudget |-> budget,
                   availableRates |-> rates]
       /\ result' = suggestOptimalLoanTerms(price, budget, rates)
  /\ fn' = "suggestOptimalLoanTerms"
  /\ pc' = "done"
  /\ UNCHANGED dashboard

CallROI ==
  /\ pc = "idle"
  /\ \E initialInvestment \in ROIAmounts, finalAssets \in ROIAmounts,
        totalCost \in ROIAmounts :
       /\ args' = [initialInvestment |-> initialInvestment,
                   finalAssets |-> finalAssets, totalCost |-> totalCost]
       /\ result' = calculateROI(initialInvestment, finalAssets, totalCost)
  /\ fn' = "calculateROI"
  /\ pc' = "done"
  /\ UNCHANGED dashboard

CallFindOptimalDownPaymentForROI ==
  /\ pc = "idle"
  /\ \E price \in SweepPrices, savings \in SweepSavings, rate \in PurchaseRates,
        term \in SweepTerms, ret \in PurchaseRates, years \in SweepYears,
        capacity \in SweepCapacities, range \in SweepRanges :
       /\ args' = [productPrice |-> price, currentSavings |-> savings,
                   loanInterestRate |-> rate, loanTermMonths |-> term,
                   investmentReturn |-> ret, projectedYears |-> years,
                   monthlyInvestmentCapacity |-> capacity,
                   minDownPayment |-> range[1], maxDownPayment |-> range[2]]
       /\ result' = findOptimalDownPaymentForROI(price, savings, rate, term, ret,
                                                 years, capacity, range[1], range[2])
  /\ fn' = "findOptimalDownPaymentForROI"
  /\ pc' = "done"
  /\ UNCHANGED dashboard

\* the caller takes the result
Return ==
  /\ pc = "done"
  /\ pc' = "idle"
  /\ fn' = "none"
  /\ args' = None
  /\ result' = None
  /\ UNCHANGED dashboard

\* GoalForm is rendered while the modal is open; its first render throws for a
\* goal whose deadline is no date (toISOString), and nothing is rendered after
Rendered == ~showGoalForm \/ formData # None

\* the formData GoalForm has once the modal shows it for goal: the one it had
\* when it was open already, its initial one otherwise, none if that throws
MountedFormData(goal) ==
  IF showGoalForm THEN formData
  ELSE IF goal # None /\ IsNaN(getTime(goal.deadline)) THEN None
  ELSE initialFormData(goal)

handleCreateGoal ==
  /\ Rendered
  /\ editingGoal' = None
  /\ showGoalForm' = TRUE
  /\ formData' = MountedFormData(None)
  /\ UNCHANGED <<goals, errors, clock, nextId>>
  /\ UNCHANGED calculator

handleEditGoal ==
  /\ Rendered
  /\ \E i \in DOMAIN goals :
       /\ editingGoal' = goals[i]
       /\ formData' = MountedFormData(goals[i])
  /\ showGoalForm' = TRUE
  /\ UNCHANGED <<goals, errors, clock, nextId>>
  /\ UNCHANGED calculator

handleInputChange ==
  /\ showGoalForm
  /\ formData # None
  /\ \E field \in Fields :
       \E value \in FieldTexts(field) :
         /\ formData' = [formData EXCEPT ![field] = value]
         /\ errors' = errors \ {field}
  /\ UNCHANGED <<goals, showGoalForm, editingGoal, clock, nextId>>
  /\ UNCHANGED calculator

\* handleSaveGoal, called by handleSubmit with the data of a valid form
handleSaveGoal(goalData) ==
  LET now == clock + 1
  IN  /\ clock' = now
      /\ IF editingGoal # None
         THEN /\ goals' = updateGoals(goals, editingGoal, goalData, now)
              /\ UNCHANGED nextId
         ELSE /\ goals' = Append(goals, withStamps(goalData, nextId, now, now))
              /\ nextId' = nextId + 1
      /\ showGoalForm' = FALSE
      /\ editingGoal' = None

\* handleSubmit of GoalForm: nothing is submitted unless validateForm passes
handleSubmit ==
  /\ showGoalForm
  /\ formData # None
  /\ clock < MaxSaves
  /\ editingGoal = None => Len(goals) < MaxGoals
  /\ IF validateForm(formData) # {}
     THEN /\ errors' = validateForm(formData)
          /\ UNCHANGED <<goals, showGoalForm, editingGoal, formData, clock, nextId>>
     ELSE /\ handleSaveGoal(goalDataOf(formData))
          /\ formData' = None
          /\ errors' = {}
  /\ UNCHANGED calculator

handleCloseForm ==
  /\ showGoalForm
  /\ formData # None
  /\ showGoalForm' = FALSE
  /\ editingGoal' = None
  /\ formData' = None
  /\ errors' = {}
  /\ UNCHANGED <<goals, clock, nextId>>
  /\ UNCHANGED calculator

\* handleDeleteGoal, the deletion confirmed or not
handleDeleteGoal ==
  /\ Rendered
  /\ \E i \in DOMAIN goals, confirmed \in BOOLEAN :
       goals' = IF confirmed THEN removeGoal(goals, goals[i].id) ELSE goals
  /\ UNCHANGED <<showGoalForm, editingGoal, formData, errors, clock, nextId>>
  /\ UNCHANGED calculator

NextGoals ==
  \/ handleCreateGoal
  \/ handleEditGoal
  \/ handleInputChange
  \/ handleSubmit
  \/ handleCloseForm
  \/ handleDeleteGoal

SpecGoals == Init /\ [][NextGoals]_vars

NextPeriod ==
  \/ CallInvestmentPeriod
  \/ Return

SpecPeriod == Init /\ [][NextPeriod]_vars

NextSimulation ==
  \/ CallInvestmentSimulation
  \/ Return

SpecSimulation == Init /\ [][NextSimulation]_vars

NextScenarios ==
  \/ CallInvestmentScenarios
  \/ Return

SpecScenarios == Init /\ [][NextScenarios]_vars

NextPurchase ==
  \/ CallLumpSumScenario
  \/ CallLoanScenario
  \/ CallPurchaseSimulation
  \/ Return

SpecPurchase == Init /\ [][NextPurchase]_vars

NextReports ==
  \/ CallLumpSumScenario
  \/ CallLoanScenario
  \/ CallPurchaseSimulation
  \/ CallInvestmentSimulation
  \/ Return

SpecReports == Init /\ [][NextReports]_vars

NextSuggest ==
  \/ CallSuggestOptimalLoanTerms
  \/ Return

SpecSuggest == Init /\ [][NextSuggest]_vars

NextROI ==
  \/ CallROI
  \/ Return

SpecROI == Init /\ [][NextROI]_vars

NextOptimal ==
  \/ CallFindOptimalDownPaymentForROI
  \/ Return

SpecOptimal == Init /\ [][NextOptimal]_vars

NextLoan ==
  \/ CallMonthlyPayment
  \/ CallLoanDetails
  \/ CallMonthlyLoanPayment
  \/ Return

SpecLoan == Init /\ [][NextLoan]_vars

NextRequired ==
  \/ CallRequiredMonthlyInvestment
  \/ CallRequiredMonthlyPayment
  \/ CallFutureValueAnnuity
  \/ CallFutureValue
  \/ Return

SpecRequired == Init /\ [][NextRequired]_vars

Next ==
  \/ CallInvestmentPeriod
  \/ CallInvestmentSimulation
  \/ CallInvestmentScenarios
  \/ CallMonthlyPayment
  \/ CallLoanDetails
  \/ CallMonthlyLoanPayment
  \/ CallRequiredMonthlyInvestment
  \/ CallRequiredMonthlyPayment
  \/ CallFutureValueAnnuity
  \/ CallFutureValue
  \/ CallLumpSumScenario
  \/ CallLoanScenario
  \/ CallPurchaseSimulation
  \/ CallSuggestOptimalLoanTerms
  \/ CallROI
  \/ CallFindOptimalDownPaymentForROI
  \/ Return
  \/ handleCreateGoal
  \/ handleEditGoal
  \/ handleInputChange
  \/ handleSubmit
  \/ handleCloseForm
  \/ handleDeleteGoal

Spec == Init /\ [][Next]_vars

Done(f) == pc = "done" /\ fn = f

(***************************************************************************)
(* The recurrence balance := balance * (1 + rate) + payment, as a list of  *)
(* the balances after 1, 2, ... periods.  q.stop is the balance at which   *)
(* the list ends early (Infinity: never).                                  *)
(***************************************************************************)
RecurrenceStep(q, rate, payment) ==
  IF q.hist # <<>> /\ RGe(q.hist[Len(q.hist)], q.stop) THEN q
  ELSE LET v == RAdd(RMul(q.value, RAdd(One, rate)), payment)
       IN  [value |-> v, hist |-> Append(q.hist, v), stop |-> q.stop]

RECURSIVE RecurrenceRun(_, _, _, _)
RecurrenceRun(q, n, rate, payment) ==
  IF n = 0 \/ (q.hist # <<>> /\ RGe(q.hist[Len(q.hist)], q.stop)) THEN q
  ELSE IF n = 1 THEN RecurrenceStep(q, rate, payment)
  ELSE RecurrenceRun(RecurrenceRun(q, n \div 2, rate, payment), n - (n \div 2), rate, payment)

\* the balances after 1..n periods from start, ending early once one is >= stop
Balances(start, rate, payment, n, stop) ==
  RecurrenceRun([value |-> start, hist |-> <<>>, stop |-> stop], n, rate, payment).hist

\* the balance after exactly n periods
BalanceAfter(start, rate, payment, n) ==
  IF n = 0 THEN start ELSE Balances(start, rate, payment, n, Infinity)[n]

Reaches(B, targetAmount) == B # <<>> /\ RGe(B[Len(B)], targetAmount)

(***************************************************************************)
(* calculateInvestmentPeriod                                               *)
(***************************************************************************)
PeriodCall == Done("calculateInvestmentPeriod")

\* the balances of the call's arguments up to the first one that meets the
\* target, 1200 periods at most
PeriodBalances ==
  Balances(args.currentAmount, RDiv(args.annualReturn, I(12)), args.monthlyInvestment,
           1200, args.targetAmount)

\* B lists balances up to the first one that meets the target: n is its length
FirstReachIs(B, targetAmount, n) ==
  /\ Len(B) = n
  /\ n >= 1
  /\ RGe(B[n], targetAmount)
  /\ \A k \in 1..(n - 1) : RLt(B[k], targetAmount)

\* C1: with a positive contribution and a target not yet met, the solver
\* returns the smallest n >= 1 such that n applications of the recurrence
\* reach the target, whenever such an n <= 1200 exists; at rate 0 the
\* shortcut returns that same n.
C1_SmallestPeriod ==
  (/\ PeriodCall
   /\ RGt(args.monthlyInvestment, Zero)
   /\ RLt(args.currentAmount, args.targetAmount))
  => LET B == PeriodBalances
     IN  Reaches(B, args.targetAmount)
         => (IsWhole(result) /\ FirstReachIs(B, args.targetAmount, result[1]))

\* a zero-rate call whose quotient is not whole and takes the shortcut to 2
\* or more periods
C1_Witness ==
  /\ PeriodCall
  /\ RGt(args.monthlyInvestment, Zero)
  /\ RLt(args.currentAmount, args.targetAmount)
  /\ args.annualReturn = Zero
  /\ ~IsWhole(RDiv(RSub(args.targetAmount, args.currentAmount), args.monthlyInvestment))
  /\ RGe(result, I(2))
  /\ RLe(result, I(1200))
  /\ Reaches(PeriodBalances, args.targetAmount)

\* C2: the solver returns 0 whenever the current amount already meets the
\* target, whatever the contribution (zero and negative included) and rate.
C2_AlreadyMet ==
  (PeriodCall /\ RGe(args.currentAmount, args.targetAmount)) => result = Zero

C2_Witness ==
  /\ PeriodCall
  /\ RGe(args.currentAmount, args.targetAmount)
  /\ RLe(args.monthlyInvestment, Zero)
  /\ result = Zero

\* C3 as stated: with a contribution <= 0 and a target not yet met the solver
\* returns the ceiling value 1200.
C3_Original ==
  (/\ PeriodCall
   /\ RLe(args.monthlyInvestment, Zero)
   /\ RLt(args.currentAmount, args.targetAmount))
  => result = I(1200)

\* C3 amended: with a contribution <= 0 and a target not yet met the solver
\* returns Infinity, a marker distinct from every finite period count.
C3_NeverIsInfinity ==
  (/\ PeriodCall
   /\ RLe(args.monthlyInvestment, Zero)
   /\ RLt(args.currentAmount, args.targetAmount))
  => (result = Infinity /\ ~IsFinite(result))

C3_Witness ==
  /\ PeriodCall
  /\ RLe(args.monthlyInvestment, Zero)
  /\ RLt(args.currentAmount, args.targetAmount)
  /\ result = Infinity

\* C4: with a positive contribution the solver never returns more than 1200,
\* at any rate, rate 0 included; when 1200 applications of the recurrence
\* have not reached the target it returns exactly 1200.
C4_Ceiling ==
  (PeriodCall /\ RGt(args.monthlyInvestment, Zero))
  => (/\ RLe(result, I(1200))
      /\ (/\ RLt(args.currentAmount, args.targetAmount)
          /\ ~RLt(result, I(1200))
          /\ ~Reaches(PeriodBalances, args.targetAmount)) => result = I(1200))

(***************************************************************************)
(* calculateInvestmentSimulation                                           *)
(***************************************************************************)
SimulationCall == Done("calculateInvestmentSimulation")

\* the running totals of the call's arguments after 1..n periods
RunningTotals(n) ==
  Balances(args.currentAmount, RDiv(args.annualReturn, I(12)), args.monthlyInvestment,
           n, Infinity)

\* the emitted points are those of periods 1..Len(P) and carry the running
\* totals T, rounded; the last one is of period lastMonth and is the first
\* whose running total meets the target
StopsAtFirstReach(P, T, targetAmount, lastMonth) ==
  /\ Len(P) >= 1
  /\ Len(T) = Len(P)
  /\ \A i \in 1..Len(P) : P[i].month = i /\ P[i].totalValue = MathRound(T[i])
  /\ I(P[Len(P)].month) = lastMonth
  /\ RGe(T[Len(P)], targetAmount)
  /\ \A i \in 1..(Len(P) - 1) : RLt(T[i], targetAmount)

\* C5 as stated: with a positive contribution and a target not yet met, the
\* last emitted point is that of month projectedMonths, its running total
\* meets the target and the running total of every earlier point is below it.
C5_Original ==
  (/\ SimulationCall
   /\ RGt(args.monthlyInvestment, Zero)
   /\ RLt(args.currentAmount, args.targetAmount))
  => LET P == result.monthlyProjections
     IN  StopsAtFirstReach(P, RunningTotals(Len(P)), args.targetAmount,
                           result.projectedMonths)

\* C5 amended: the same, whenever projectedMonths is at most the 600-point
\* ceiling of the trajectory.
C5_StopsAtTarget ==
  (/\ SimulationCall
   /\ RGt(args.monthlyInvestment, Zero)
   /\ RLt(args.currentAmount, args.targetAmount)
   /\ RLe(result.projectedMonths, I(600)))
  => LET P == result.monthlyProjections
     IN  StopsAtFirstReach(P, RunningTotals(Len(P)), args.targetAmount,
                           result.projectedMonths)

\* a trajectory of more than a hundred points that ends at the target
C5_Witness ==
  /\ SimulationCall
  /\ RGt(args.monthlyInvestment, Zero)
  /\ RLt(args.currentAmount, args.targetAmount)
  /\ RLe(result.projectedMonths, I(600))
  /\ Len(result.monthlyProjections) > 100
  /\ RGe(result.monthlyProjections[Len(result.monthlyProjections)].totalValue,
         args.targetAmount)

\* C6: the trajectory never has more than 600 points, for any input, and its
\* points are numbered 1, 2, ..., k without a gap.
C6_PointCap ==
  SimulationCall
  => (/\ Len(result.monthlyProjections) <= 600
      /\ \A i \in 1..Len(result.monthlyProjections) :
           result.monthlyProjections[i].month = i)

\* a capped trajectory of a call that can never reach its target
C6_Witness ==
  /\ SimulationCall
  /\ RLe(args.monthlyInvestment, Zero)
  /\ RLt(args.currentAmount, args.targetAmount)
  /\ result.projectedMonths = Infinity
  /\ Len(result.monthlyProjections) = 600

\* a capped trajectory of a call whose horizon is the 1200-period ceiling
C6_WitnessCeiling ==
  /\ SimulationCall
  /\ result.projectedMonths = I(1200)
  /\ Len(result.monthlyProjections) = 600

(***************************************************************************)
(* calculateMonthlyPayment, calculateLoanDetails,                          *)
(* calculateMonthlyLoanPayment                                             *)
(***************************************************************************)
\* the term of the call in months
TermMonths ==
  IF fn = "calculateMonthlyLoanPayment" THEN args.months ELSE RMul(args.years, I(12))

LoanRate == IF fn = "calculateMonthlyLoanPayment" THEN args.annualRate ELSE args.rate

PaymentCall ==
  pc = "done" /\ fn \in {"calculateMonthlyPayment", "calculateMonthlyLoanPayment"}

\* the schedule S has n entries with one payment, and its remaining balance
\* never rises, starting from the principal, is never negative and ends at 0
Amortizes(S, principal, n) ==
  /\ Len(S) = n
  /\ \A i \in 1..n :
       /\ S[i].month = i
       /\ S[i].payment = S[1].payment
       /\ RGe(S[i].remainingBalance, Zero)
       /\ RLe(S[i].remainingBalance, IF i = 1 THEN principal ELSE S[i - 1].remainingBalance)
  /\ S[n].remainingBalance = Zero

\* C7: at a positive rate, for a positive principal and a term of n >= 1
\* whole months, the level payment of either function pays the loan off
\* exactly in n months, and the schedule of calculateLoanDetails has the same
\* payment in all n entries and a remaining balance that never rises, is
\* never negative and is 0 at entry n.
C7_LevelPaymentAmortizes ==
  /\ (/\ PaymentCall
      /\ RGt(LoanRate, Zero)
      /\ RGt(args.principal, Zero))
     => BalanceAfter(args.principal, RDiv(LoanRate, I(12)), RNeg(result),
                     TermMonths[1]) = Zero
  /\ (/\ Done("calculateLoanDetails")
      /\ RGt(args.rate, Zero)
      /\ RGt(args.principal, Zero))
     => Amortizes(result.paymentSchedule, args.principal, TermMonths[1])

\* a schedule of three or more months whose balance falls at every entry
C7_Witness ==
  /\ Done("calculateLoanDetails")
  /\ RGt(args.rate, Zero)
  /\ RGt(args.principal, Zero)
  /\ Len(result.paymentSchedule) >= 3
  /\ \A i \in 2..Len(result.paymentSchedule) :
       RLt(result.paymentSchedule[i].remainingBalance,
           result.paymentSchedule[i - 1].remainingBalance)
  /\ result.paymentSchedule[Len(result.paymentSchedule)].remainingBalance = Zero

\* C8: at rate 0 the level payment of either function is exactly the
\* principal divided by the number of months, a finite number.
C8_ZeroRatePayment ==
  (PaymentCall /\ LoanRate = Zero)
  => (/\ IsFinite(result)
      /\ RMul(result, TermMonths) = args.principal
      /\ result = RDiv(args.principal, TermMonths))

\* the repository's test: 1200 over 12 months at 0% is 100 a month
C8_Witness ==
  /\ Done("calculateMonthlyLoanPayment")
  /\ args.annualRate = Zero
  /\ args.principal = I(1200)
  /\ args.months = I(12)
  /\ result = I(100)

\* the same through calculateMonthlyPayment, with a payment that is not whole
C8_WitnessYears ==
  /\ Done("calculateMonthlyPayment")
  /\ args.rate = Zero
  /\ ~IsWhole(result)

(***************************************************************************)
(* calculateRequiredMonthlyInvestment, calculateRequiredMonthlyPayment     *)
(***************************************************************************)
\* the rounding tolerance of a monetary amount: half a hundredth
Tolerance == Frac(1, 200)

WithinTolerance(x, y) ==
  /\ RLe(RSub(x, y), Tolerance)
  /\ RLe(RSub(y, x), Tolerance)

\* the amount by which the current amount, grown monthly at the annual rate
\* over the months, falls short of the target
Shortfall(currentAmount, targetAmount, annualRate, months) ==
  RSub(targetAmount,
       RMul(currentAmount, PowInt(RAdd(One, RDiv(annualRate, I(12))), months)))

\* the horizon of the call in whole months
HorizonOfCall == RMul(args.years, I(12))[1]

\* the balance the returned payment leads to: the monthly recurrence run from
\* the current amount over the horizon
RoundTrip(annualRate) ==
  BalanceAfter(args.currentAmount, RDiv(annualRate, I(12)), result, HorizonOfCall)

\* C9: for a horizon of years*12 >= 1 whole months, a return >= 0 and a
\* positive shortfall, the payment of calculateRequiredMonthlyInvestment, paid
\* every month of the horizon under the recurrence, ends at the target.
C9_RoundTripInvestment ==
  (/\ Done("calculateRequiredMonthlyInvestment")
   /\ RGt(args.years, Zero)
   /\ RGe(args.annualReturn, Zero)
   /\ RGt(Shortfall(args.currentAmount, args.targetAmount, args.annualReturn,
                    HorizonOfCall), Zero))
  => WithinTolerance(RoundTrip(args.annualReturn), args.targetAmount)

\* a compounding call of three or more months from a positive current amount
C9_Witness ==
  /\ Done("calculateRequiredMonthlyInvestment")
  /\ RGt(args.annualReturn, Zero)
  /\ RGt(args.currentAmount, Zero)
  /\ HorizonOfCall >= 3
  /\ RGt(Shortfall(args.currentAmount, args.targetAmount, args.annualReturn,
                   HorizonOfCall), Zero)
  /\ RGt(result, Zero)
  /\ ~IsWhole(result)

\* C10: for years > 0, a rate >= 0, a current amount >= 0 and a positive
\* shortfall (the current amount covers the target neither as the function
\* compounds it nor as the recurrence does), the payment of
\* calculateRequiredMonthlyPayment, paid every month of the horizon under the
\* recurrence, ends at the target.
C10_RoundTripPayment ==
  (/\ Done("calculateRequiredMonthlyPayment")
   /\ RGt(args.years, Zero)
   /\ RGe(args.rate, Zero)
   /\ RGe(args.currentAmount, Zero)
   /\ RGt(result, Zero)
   /\ RGt(Shortfall(args.currentAmount, args.targetAmount, args.rate, HorizonOfCall),
          Zero))
  => WithinTolerance(RoundTrip(args.rate), args.targetAmount)

(***************************************************************************)
(* calculateInvestmentScenarios                                            *)
(***************************************************************************)
ScenariosCall == Done("calculateInvestmentScenarios")

\* the three annual returns are in the order conservative, expected, optimistic
BandsOrdered(r) ==
  /\ RLe(r.conservative.annualReturn, r.expected.annualReturn)
  /\ RLe(r.expected.annualReturn, r.optimistic.annualReturn)

\* the bands are the expected return moved by 0.15, the lower one floored at 0.01
BandsDerived(r, expectedReturn) ==
  /\ r.expected.annualReturn = expectedReturn
  /\ r.optimistic.annualReturn = RAdd(expectedReturn, Frac(15, 100))
  /\ r.conservative.annualReturn =
       (IF RGe(RSub(expectedReturn, Frac(15, 100)), Frac(1, 100))
        THEN RSub(expectedReturn, Frac(15, 100)) ELSE Frac(1, 100))

\* C11 as stated: for any expected return the three band returns are ordered
\* conservative <= expected <= optimistic, the conservative one being
\* max(0.01, expected - 0.15) and the optimistic one expected + 0.15.
C11_Original ==
  ScenariosCall => (BandsDerived(result, args.expectedReturn) /\ BandsOrdered(result))

\* C11, amended: the bands are max(0.01, expected - 0.15), expected and
\* expected + 0.15 for every expected return; they are ordered conservative <=
\* expected <= optimistic whenever the expected return is at least the floor
\* 0.01, and below the floor the conservative band is 0.01, above the expected.
C11_BandsOrdered ==
  ScenariosCall =>
    /\ BandsDerived(result, args.expectedReturn)
    /\ RGe(args.expectedReturn, Frac(1, 100)) => BandsOrdered(result)
    /\ RLt(args.expectedReturn, Frac(1, 100)) =>
         /\ result.conservative.annualReturn = Frac(1, 100)
         /\ RGt(result.conservative.annualReturn, result.expected.annualReturn)
         /\ RLe(result.expected.annualReturn, result.optimistic.annualReturn)

\* a call whose expected return lies above the floor plus the offset, so that
\* the three bands are distinct and none is the floor
C11_Witness ==
  /\ ScenariosCall
  /\ RGt(args.expectedReturn, Frac(16, 100))
  /\ RLt(result.conservative.annualReturn, result.expected.annualReturn)
  /\ RLt(result.expected.annualReturn, result.optimistic.annualReturn)

\* a call whose expected return lies below the floor
C11_WitnessFloor ==
  /\ ScenariosCall
  /\ RLt(args.expectedReturn, Frac(1, 100))
  /\ result.conservative.annualReturn = Frac(1, 100)

\* the period counts fall (or stay) from the conservative band to the optimistic
MonthsOrdered(r) ==
  /\ RGe(r.conservative.projectedMonths, r.expected.projectedMonths)
  /\ RGe(r.expected.projectedMonths, r.optimistic.projectedMonths)

\* C12 as stated: for any current amount, target, contribution and expected
\* return, conservative.projectedMonths >= expected.projectedMonths >=
\* optimistic.projectedMonths.
C12_Original ==
  ScenariosCall => MonthsOrdered(result)

\* C12, amended: conservative.projectedMonths >= expected.projectedMonths >=
\* optimistic.projectedMonths whenever the expected return is at least the
\* floor 0.01 and the current amount is not negative.
C12_MonthsOrdered ==
  (/\ ScenariosCall
   /\ RGe(args.expectedReturn, Frac(1, 100))
   /\ RGe(args.currentAmount, Zero))
  => MonthsOrdered(result)

\* a call within the amended claim whose conservative band takes strictly
\* more periods than its expected band
C12_Witness ==
  /\ ScenariosCall
  /\ RGe(args.expectedReturn, Frac(1, 100))
  /\ RGe(args.currentAmount, Zero)
  /\ IsFinite(result.conservative.projectedMonths)
  /\ RGt(result.conservative.projectedMonths, result.expected.projectedMonths)

\* a debt under an expected return above the floor: the optimistic band takes
\* more periods than the expected one
C12_WitnessDebt ==
  /\ ScenariosCall
  /\ RGe(args.expectedReturn, Frac(1, 100))
  /\ RLt(args.currentAmount, Zero)
  /\ RGt(result.optimistic.projectedMonths, result.expected.projectedMonths)

\* an expected return below the floor: the conservative band takes fewer
\* periods than the expected one
C12_WitnessFloor ==
  /\ ScenariosCall
  /\ RLt(args.expectedReturn, Frac(1, 100))
  /\ RGe(args.currentAmount, Zero)
  /\ RLt(result.conservative.projectedMonths, result.expected.projectedMonths)

Bands(r) == {r.conservative, r.expected, r.optimistic}

AtCeiling(b) == RGe(b.projectedMonths, I(1200))

\* the recurrence value of band b after exactly b.projectedMonths periods
ReplayValue(b) ==
  BalanceAfter(args.currentAmount, RDiv(b.annualReturn, I(12)),
               args.monthlyInvestment, b.projectedMonths[1])

\* band b reports the target and no returns
Degraded(b) ==
  /\ b.totalValue = args.targetAmount
  /\ b.totalReturns = Zero

C13_WitnessCeiling ==
  /\ ScenariosCall
  /\ RGt(args.targetAmount, Zero)
  /\ \E b \in Bands(result) : AtCeiling(b) /\ Degraded(b)

(***************************************************************************)
(* calculateLoanScenario, calculatePurchaseSimulation                      *)
(***************************************************************************)
LoanScenarioCall == Done("calculateLoanScenario")

\* C14: for every result of calculateLoanScenario with productPrice > 0, a down
\* payment of 0..100 percent and a term of at least one month, totalCost >=
\* productPrice whenever the loan rate is positive, and totalCost equals
\* productPrice when the loan rate is 0.
C14_TotalCost ==
  (/\ LoanScenarioCall
   /\ RGt(args.productPrice, Zero)
   /\ RGe(args.downPaymentPercentage, Zero)
   /\ RLe(args.downPaymentPercentage, I(100))
   /\ RGe(args.loanTermMonths, One))
  => /\ RGt(args.loanInterestRate, Zero) => RGe(result.totalCost, args.productPrice)
     /\ args.loanInterestRate = Zero => result.totalCost = args.productPrice

\* the same for whole-number prices, where rounding the cost to whole units
\* loses nothing
C14_WholePrices ==
  (/\ LoanScenarioCall
   /\ IsWhole(args.productPrice))
  => /\ RGt(args.loanInterestRate, Zero) => RGe(result.totalCost, args.productPrice)
     /\ args.loanInterestRate = Zero => result.totalCost = args.productPrice

PurchaseCall == Done("calculatePurchaseSimulation")

\* the net worth of the financed branch: its final assets less what the
\* financing costs beyond the price
LoanNetWorth(r) ==
  RSub(r.loanScenario.finalAssets, RSub(r.loanScenario.totalCost, r.productPrice))

\* the distance between two numbers
Gap(x, y) == IF RGe(x, y) THEN RSub(x, y) ELSE RSub(y, x)

\* C15: calculatePurchaseSimulation recommends 'lump_sum' exactly when
\* lumpSumScenario.finalAssets > loanScenario.finalAssets - (loanScenario.totalCost
\* - productPrice), and 'loan' otherwise, a tie included; totalDifference is the
\* absolute value of that gap rounded to the nearest unit, and never negative.
C15_Recommendation ==
  PurchaseCall =>
    /\ result.productPrice = args.productPrice
    /\ result.recommendation =
         (IF RGt(result.lumpSumScenario.finalAssets, LoanNetWorth(result))
          THEN "lump_sum" ELSE "loan")
    /\ result.totalDifference =
         MathRound(Gap(result.lumpSumScenario.finalAssets, LoanNetWorth(result)))
    /\ RGe(result.totalDifference, Zero)

\* a tie between the two branches, resolved toward financing
C15_Witness ==
  /\ PurchaseCall
  /\ RGt(result.loanScenario.loanAmount, Zero)
  /\ result.lumpSumScenario.finalAssets = LoanNetWorth(result)
  /\ result.recommendation = "loan"
  /\ result.totalDifference = Zero

\* paying in full is ahead and recommended
C15_WitnessLumpSum ==
  /\ PurchaseCall
  /\ RGt(result.lumpSumScenario.finalAssets, LoanNetWorth(result))
  /\ result.recommendation = "lump_sum"
  /\ RGt(result.totalDifference, Zero)

\* financing is strictly ahead and recommended
C15_WitnessLoan ==
  /\ PurchaseCall
  /\ RLt(result.lumpSumScenario.finalAssets, LoanNetWorth(result))
  /\ result.recommendation = "loan"
  /\ RGt(result.totalDifference, Zero)

\* the down payment and the level payment of the call
DownPaymentOfCall ==
  RDiv(RMul(args.productPrice, args.downPaymentPercentage), I(100))

PaymentOfCall ==
  calculateMonthlyLoanPayment(RSub(args.productPrice, DownPaymentOfCall),
                              args.loanInterestRate, args.loanTermMonths)

\* x - y where that is positive, and 0 otherwise
ClampedDifference(x, y) == IF RGt(x, y) THEN RSub(x, y) ELSE Zero

\* C20: in calculateLoanScenario the opportunity track never runs on a negative
\* input: the monthly contribution is max(0, additionalMonthlyInvestment -
\* monthlyPayment), 0 when the payment exceeds the capacity; the starting
\* principal is max(0, currentSavings - downPayment); and no projection point
\* has a negative investmentContribution, for any non-negative investmentReturn.
C20_NoNegativeInput ==
  (/\ LoanScenarioCall
   /\ RGe(args.investmentReturn, Zero))
  => LET P == result.opportunity.monthlyProjections
     IN  /\ result.monthlyInvestment =
              ClampedDifference(args.additionalMonthlyInvestment, PaymentOfCall)
         /\ RGe(result.monthlyInvestment, Zero)
         /\ result.remainingSavings =
              MathRound(ClampedDifference(args.currentSavings, DownPaymentOfCall))
         /\ RGe(result.remainingSavings, Zero)
         /\ \A i \in DOMAIN P :
              /\ P[i].investmentContribution = result.monthlyInvestment
              /\ RGe(P[i].investmentContribution, Zero)
              /\ RGe(P[i].investmentValue, Zero)

\* a payment above the capacity and a down payment above the savings, over a
\* horizon of at least one month: both inputs of the track are clamped to 0
C20_Witness ==
  /\ LoanScenarioCall
  /\ RGe(args.investmentReturn, Zero)
  /\ RGt(PaymentOfCall, args.additionalMonthlyInvestment)
  /\ RGt(DownPaymentOfCall, args.currentSavings)
  /\ result.opportunity.monthlyProjections # <<>>
  /\ result.monthlyInvestment = Zero
  /\ result.remainingSavings = Zero

\* a capacity above the payment: the difference is invested every month
C20_WitnessPositive ==
  /\ LoanScenarioCall
  /\ RGt(PaymentOfCall, Zero)
  /\ RGt(args.additionalMonthlyInvestment, PaymentOfCall)
  /\ result.opportunity.monthlyProjections # <<>>
  /\ RGt(result.monthlyInvestment, Zero)

(***************************************************************************)
(* calculateROI, findOptimalDownPaymentForROI                              *)
(***************************************************************************)
ROICall == Done("calculateROI")

\* C19: calculateROI returns 0 when totalCost <= 0 and (finalAssets -
\* totalCost) / totalCost * 100 otherwise; the result does not depend on
\* initialInvestment, is 0 when finalAssets = totalCost, and is positive
\* exactly when finalAssets > totalCost > 0.
C19_ROI ==
  ROICall =>
    /\ RLe(args.totalCost, Zero) => result = Zero
    /\ RGt(args.totalCost, Zero) =>
         RMul(result, args.totalCost) =
           RMul(RSub(args.finalAssets, args.totalCost), I(100))
    /\ \A initialInvestment \in ROIAmounts :
         calculateROI(initialInvestment, args.finalAssets, args.totalCost) = result
    /\ args.finalAssets = args.totalCost => result = Zero
    /\ RGt(result, Zero) <=>
         (RGt(args.finalAssets, args.totalCost) /\ RGt(args.totalCost, Zero))

\* final assets above a positive cost, with an initial investment that is
\* neither of them: the result is the gain in percent of the cost
C19_Witness ==
  /\ ROICall
  /\ RGt(args.totalCost, Zero)
  /\ RGt(args.finalAssets, args.totalCost)
  /\ args.initialInvestment # args.totalCost
  /\ args.initialInvestment # args.finalAssets
  /\ RGt(result, Zero)

\* the repository's test: calculateROI(1000, 1100, 1000) is 10
C19_WitnessTest ==
  /\ ROICall
  /\ args = [initialInvestment |-> I(1000), finalAssets |-> I(1100),
             totalCost |-> I(1000)]
  /\ result = I(10)

\* a cost that is not positive under final assets that are: the result is 0
C19_WitnessNoCost ==
  /\ ROICall
  /\ RLe(args.totalCost, Zero)
  /\ RGt(args.finalAssets, Zero)
  /\ result = Zero

OptimalCall == Done("findOptimalDownPaymentForROI")

\* the positions of the feasible entries of an analysis
FeasibleEntries(A) == {i \in DOMAIN A : A[i].feasible}

\* the largest roi among the feasible entries; -Infinity when there is none
MaxFeasibleROI(A) ==
  LET F == FeasibleEntries(A)
  IN  IF F = {} THEN NegInfinity
      ELSE A[CHOOSE i \in F : \A j \in F : RLe(A[j].roi, A[i].roi)].roi

\* the positions of the entries for percentage pct
EntriesOf(A, pct) == {i \in DOMAIN A : A[i].downPayment = pct}

\* C16: for every call of findOptimalDownPaymentForROI, the roiAnalysis entry
\* whose downPayment equals the returned optimalDownPayment has the largest roi
\* among the entries marked feasible, and the returned maxROI equals that
\* largest roi (-Infinity when no entry is feasible).
C16_OptimalIsMaximum ==
  OptimalCall =>
    LET A == result.roiAnalysis
        best == MaxFeasibleROI(A)
    IN  /\ result.maxROI = best
        /\ EntriesOf(A, result.optimalDownPayment) # {}
        /\ \A i \in EntriesOf(A, result.optimalDownPayment) :
             /\ A[i].roi = best
             /\ FeasibleEntries(A) # {} => A[i].feasible

\* a sweep whose first feasible percentage is not the best one
C16_Witness ==
  /\ OptimalCall
  /\ LET A == result.roiAnalysis
     IN  /\ Len(A) > 1
         /\ A[1].feasible
         /\ RLt(A[1].roi, result.maxROI)
         /\ \E i \in FeasibleEntries(A) :
              A[i].downPayment = result.optimalDownPayment /\ i > 1

\* a sweep without a feasible percentage
C16_WitnessNone ==
  /\ OptimalCall
  /\ FeasibleEntries(result.roiAnalysis) = {}
  /\ result.maxROI = NegInfinity

C18_TieKeepsLowest ==
  (/\ OptimalCall
   /\ FeasibleEntries(result.roiAnalysis) # {})
  => LET A == result.roiAnalysis
     IN  /\ \E i \in FeasibleEntries(A) :
              /\ A[i].downPayment = result.optimalDownPayment
              /\ A[i].roi = result.maxROI
         /\ \A i \in FeasibleEntries(A) :
              A[i].roi = result.maxROI =>
                RGe(A[i].downPayment, result.optimalDownPayment)

\* a sweep in which two feasible percentages share the largest roi
C18_Witness ==
  /\ OptimalCall
  /\ LET A == result.roiAnalysis
     IN  \E i, j \in FeasibleEntries(A) :
           /\ i < j
           /\ A[i].roi = result.maxROI
           /\ A[j].roi = result.maxROI
           /\ A[i].downPayment = result.optimalDownPayment

(***************************************************************************)
(* calculateLoanScenario: the loan overlay of the monthly projections      *)
(***************************************************************************)
\* the principal financed by the call
LoanAmountOfCall == RSub(args.productPrice, DownPaymentOfCall)

\* the unrounded balance of the loan after m level payments
OutstandingAfter(m) ==
  BalanceAfter(LoanAmountOfCall, RDiv(args.loanInterestRate, I(12)),
               RNeg(PaymentOfCall), m)

\* the overlay of the months within the term, apart from the net worth: the
\* balance is never negative, never grows, and is 0 at the last month of the term
BalanceRunsOff(P) ==
  \A i \in DOMAIN P :
    RLe(I(i), args.loanTermMonths) =>
      /\ P[i].month = i
      /\ RGe(P[i].loanBalance, Zero)
      /\ i > 1 => RLe(P[i].loanBalance, P[i - 1].loanBalance)
      /\ I(i) = args.loanTermMonths => P[i].loanBalance = Zero

\* the overlay of the months after the term
AfterTerm(P) ==
  \A i \in DOMAIN P :
    RGt(I(i), args.loanTermMonths) =>
      /\ P[i].loanBalance = Zero
      /\ P[i].loanPayment = Zero
      /\ P[i].netWorth = P[i].investmentValue

C21_WitnessHalf ==
  /\ LoanScenarioCall
  /\ LET P == result.opportunity.monthlyProjections
     IN  \E i \in DOMAIN P :
           /\ RLe(I(i), args.loanTermMonths)
           /\ ~IsWhole(OutstandingAfter(i))
           /\ P[i].netWorth # RSub(P[i].investmentValue, P[i].loanBalance)

(***************************************************************************)
(* calculateLumpSumScenario                                                *)
(***************************************************************************)
LumpSumCall == Done("calculateLumpSumScenario")

\* the number of months of the horizon of the call
HorizonOfLumpSum == MathRound(RMul(args.projectedYears, I(12)))

\* what the call says apart from the final assets: the savings left over, the
\* cost, and a track of one point per month of the horizon that grows from the
\* savings left over by the full monthly investment
LumpSumTrack ==
  LET P == result.opportunity.monthlyProjections
      start == ClampedDifference(args.currentSavings, args.productPrice)
  IN  /\ result.remainingSavings = start
      /\ result.totalCost = args.productPrice
      /\ I(Len(P)) = HorizonOfLumpSum
      /\ \A i \in DOMAIN P :
           /\ P[i].investmentContribution = args.monthlyInvestment
           /\ P[i].investmentValue =
                MathRound(BalanceAfter(start, RDiv(args.investmentReturn, I(12)),
                                       args.monthlyInvestment, i))
      /\ P # <<>> => result.finalAssets = P[Len(P)].investmentValue

C22_WitnessNoHorizon ==
  /\ LumpSumCall
  /\ HorizonOfLumpSum = Zero
  /\ ~IsWhole(result.remainingSavings)
  /\ result.finalAssets # result.remainingSavings

\* a price above the savings: nothing is left over
C22_WitnessClamped ==
  /\ LumpSumCall
  /\ RGt(args.productPrice, args.currentSavings)
  /\ result.remainingSavings = Zero

(***************************************************************************)
(* calculateRequiredMonthlyInvestment, calculateRequiredMonthlyPayment:    *)
(* the payment is a finite amount that is never negative                   *)
(***************************************************************************)
RequiredInvestmentCall == Done("calculateRequiredMonthlyInvestment")

RequiredPaymentCall == Done("calculateRequiredMonthlyPayment")

\* the current amount grown at the monthly rate over the horizon of a call of
\* calculateRequiredMonthlyInvestment
GrownMonthly ==
  RMul(args.currentAmount,
       MathPow(RAdd(One, RDiv(args.annualReturn, I(12))), RMul(args.years, I(12))))

\* the current amount grown at the annual rate over the years of a call of
\* calculateRequiredMonthlyPayment
GrownAnnually ==
  RMul(args.currentAmount, MathPow(RAdd(One, args.rate), args.years))

\* C23: both required-contribution solvers return exactly 0 when the future
\* value of the current amount already covers the target, and never return a
\* negative or non-finite payment for any years >= 0 and rate >= 0, years = 0
\* included.
C23_FinitePayment ==
  /\ (/\ RequiredInvestmentCall
      /\ RGe(args.years, Zero)
      /\ RGe(args.annualReturn, Zero))
     => /\ RGe(GrownMonthly, args.targetAmount) => result = Zero
        /\ IsFinite(result)
        /\ RGe(result, Zero)
  /\ (/\ RequiredPaymentCall
      /\ RGe(args.years, Zero)
      /\ RGe(args.rate, Zero))
     => /\ RGe(GrownAnnually, args.targetAmount) => result = Zero
        /\ IsFinite(result)
        /\ RGe(result, Zero)

\* the same with the horizon of calculateRequiredMonthlyPayment longer than 0
C23_PositiveYears ==
  /\ (/\ RequiredInvestmentCall
      /\ RGe(args.years, Zero)
      /\ RGe(args.annualReturn, Zero))
     => /\ RGe(GrownMonthly, args.targetAmount) => result = Zero
        /\ IsFinite(result)
        /\ RGe(result, Zero)
  /\ (/\ RequiredPaymentCall
      /\ RGt(args.years, Zero)
      /\ RGe(args.rate, Zero))
     => /\ RGe(GrownAnnually, args.targetAmount) => result = Zero
        /\ IsFinite(result)
        /\ RGe(result, Zero)

(***************************************************************************)
(* The branch for a rate of 0: futureValueAnnuity, calculateFutureValue    *)
(* and the two solvers of the required contribution                        *)
(***************************************************************************)
AnnuityCall == Done("futureValueAnnuity")

FutureValueCall == Done("calculateFutureValue")

\* the months of the horizon of a call whose argument is in years
MonthsOfYears == RMul(args.years, I(12))

\* C24: every formula that divides by a rate takes a branch for a rate of 0 that
\* equals the linear form: futureValueAnnuity(payment, 0, n) = payment*n;
\* calculateFutureValue(current, payment, 0, years) = current + payment*years*12;
\* the solvers of the required contribution return shortfall/(years*12) at a
\* rate of 0, where they reach that branch (a positive shortfall, and for
\* calculateRequiredMonthlyInvestment a positive horizon); and for a rate other than 0
\* and a whole n, futureValueAnnuity(payment, r, n) is the value after n steps
\* of value := value*(1 + r) + payment started from 0.
C24_ZeroRateIsLinear ==
  /\ AnnuityCall =>
       /\ args.rate = Zero => result = RMul(args.payment, args.periods)
       /\ args.rate # Zero =>
            result = BalanceAfter(Zero, args.rate, args.payment, args.periods[1])
  /\ (FutureValueCall /\ args.annualReturn = Zero) =>
       result = RAdd(args.currentAmount, RMul(args.monthlyInvestment, MonthsOfYears))
  /\ (/\ RequiredInvestmentCall
      /\ args.annualReturn = Zero
      /\ RGt(args.years, Zero)
      /\ RGt(args.targetAmount, args.currentAmount))
     => result = RDiv(RSub(args.targetAmount, args.currentAmount), MonthsOfYears)
  /\ (/\ RequiredPaymentCall
      /\ args.rate = Zero
      /\ RGt(args.targetAmount, args.currentAmount))
     => result = RDiv(RSub(args.targetAmount, args.currentAmount), MonthsOfYears)

\* a payment at a rate of 0 over several periods: no division by the rate
C24_Witness ==
  /\ AnnuityCall
  /\ args.rate = Zero
  /\ RGt(args.payment, Zero)
  /\ RGt(args.periods, One)
  /\ IsFinite(result)
  /\ RGt(result, args.payment)

\* a payment compounded at a rate other than 0 over several periods
C24_WitnessCompound ==
  /\ AnnuityCall
  /\ RGt(args.rate, Zero)
  /\ RGt(args.payment, Zero)
  /\ RGt(args.periods, One)
  /\ RGt(result, RMul(args.payment, args.periods))

\* calculateFutureValue at a return of 0 with a balance and a contribution
C24_WitnessFutureValue ==
  /\ FutureValueCall
  /\ args.annualReturn = Zero
  /\ RGt(args.currentAmount, Zero)
  /\ RGt(args.monthlyInvestment, Zero)
  /\ RGt(args.years, Zero)
  /\ RGt(result, args.currentAmount)

\* both solvers at a rate of 0 with a positive shortfall and horizon
C24_WitnessInvestment ==
  /\ RequiredInvestmentCall
  /\ args.annualReturn = Zero
  /\ RGt(args.years, Zero)
  /\ RGt(args.targetAmount, args.currentAmount)
  /\ RGt(result, Zero)

C24_WitnessPayment ==
  /\ RequiredPaymentCall
  /\ args.rate = Zero
  /\ RGt(args.years, Zero)
  /\ RGt(args.targetAmount, args.currentAmount)
  /\ RGt(result, Zero)

(***************************************************************************)
(* The rounding of the amounts reported by the purchase functions and by   *)
(* calculateInvestmentSimulation                                           *)
(***************************************************************************)
\* the whole number nearest to a finite x, the upper one of the two at a tie
NearestUnit(x) ==
  LET below == x[1] \div x[2]
  IN  IF 2 * (x[1] - below * x[2]) >= x[2] THEN I(below + 1) ELSE I(below)

\* the multiple of 0.01 nearest to a finite x
NearestCent(x) == RDiv(NearestUnit(RMul(x, I(100))), I(100))

\* the track of an opportunity record that starts from start and adds
\* contribution every month: its points and its summary, rounded by Round
TrackIs(Round(_), o, start, contribution, annualReturn, n) ==
  /\ Len(o.monthlyProjections) = n
  /\ \A i \in 1..n :
       o.monthlyProjections[i].investmentValue =
         Round(BalanceAfter(start, RDiv(annualReturn, I(12)), contribution, i))
  /\ o.finalValue = Round(BalanceAfter(start, RDiv(annualReturn, I(12)), contribution, n))
  /\ o.totalInvested = Round(RAdd(start, RMul(I(n), contribution)))
  /\ o.investmentReturns =
       Round(RSub(o.finalValue, RAdd(start, RMul(I(n), contribution))))

\* the amounts of a paying-in-full record
LumpSumIs(Round(_)) ==
  /\ TrackIs(Round, result.opportunity,
             ClampedDifference(args.currentSavings, args.productPrice),
             args.monthlyInvestment, args.investmentReturn, HorizonOfLumpSum[1])
  /\ result.finalAssets = result.opportunity.finalValue

\* the amounts of a financing record
LoanIs(Round(_)) ==
  LET interest == RSub(RMul(PaymentOfCall, args.loanTermMonths), LoanAmountOfCall)
  IN  /\ result.downPayment = Round(DownPaymentOfCall)
      /\ result.loanAmount = Round(LoanAmountOfCall)
      /\ result.monthlyPayment = Round(PaymentOfCall)
      /\ result.totalInterest = Round(interest)
      /\ result.totalCost = Round(RAdd(args.productPrice, interest))
      /\ result.remainingSavings =
           Round(ClampedDifference(args.currentSavings, DownPaymentOfCall))
      /\ TrackIs(Round, result.opportunity,
                 ClampedDifference(args.currentSavings, DownPaymentOfCall),
                 ClampedDifference(args.additionalMonthlyInvestment, PaymentOfCall),
                 args.investmentReturn, HorizonOfLumpSum[1])
      /\ result.finalAssets = result.opportunity.finalValue

\* the gap of a comparison
VerdictIs(Round(_)) ==
  result.totalDifference =
    Round(Gap(result.lumpSumScenario.finalAssets, LoanNetWorth(result)))

\* the points of a simulation, T being the unrounded running totals, and its
\* total of contributions
SimulationIs(Round(_), P, T) ==
  /\ \A i \in 1..Len(P) :
       /\ P[i].totalValue = Round(T[i])
       /\ P[i].cumulativeInvestment = Round(RMul(I(i), args.monthlyInvestment))
       /\ P[i].cumulativeReturns =
            Round(RSub(RSub(T[i], args.currentAmount),
                       RMul(I(i), args.monthlyInvestment)))
  /\ (IsFinite(result.projectedMonths) /\ IsFinite(result.totalInvested)) =>
       result.totalInvested =
         Round(RMul(result.projectedMonths, args.monthlyInvestment))

\* the amounts reported by the four calls are the exact ones rounded by Round
ReportsAre(Round(_)) ==
  /\ LumpSumCall => LumpSumIs(Round)
  /\ LoanScenarioCall => LoanIs(Round)
  /\ PurchaseCall => VerdictIs(Round)
  /\ SimulationCall =>
       SimulationIs(Round, result.monthlyProjections,
                    RunningTotals(Len(result.monthlyProjections)))

C25_WitnessLumpSum ==
  /\ LumpSumCall
  /\ ~IsWhole(result.remainingSavings)
  /\ IsWhole(result.finalAssets)

\* a simulation whose running totals are not whole
C25_WitnessSimulation ==
  /\ SimulationCall
  /\ ~IsWhole(args.monthlyInvestment)
  /\ Len(result.monthlyProjections) > 1
  /\ \A i \in 1..Len(result.monthlyProjections) :
       IsWhole(result.monthlyProjections[i].totalValue)

(***************************************************************************)
(* Conservation: what a balance is made of                                 *)
(***************************************************************************)
\* the starting amount and the monthly contribution of the opportunity track
\* of a paying-in-full or financing call
TrackStart ==
  IF LumpSumCall THEN ClampedDifference(args.currentSavings, args.productPrice)
  ELSE ClampedDifference(args.currentSavings, DownPaymentOfCall)

TrackContribution ==
  IF LumpSumCall THEN args.monthlyInvestment
  ELSE ClampedDifference(args.additionalMonthlyInvestment, PaymentOfCall)

\* what has been paid into the track of the call by the end of its horizon
PaidIn == RAdd(TrackStart, RMul(HorizonOfLumpSum, TrackContribution))

\* x lies halfway between two whole numbers
IsHalfway(x) == IsFinite(x) /\ ~IsWhole(x) /\ IsWhole(RMul(x, I(2)))

\* the points of a simulation against the unrounded running totals T: the
\* total is the starting amount plus the contributions plus the returns, and
\* the return of a period is the total before it times the monthly rate
Conserved(P, T) ==
  \A i \in 1..Len(P) :
    LET before == IF i = 1 THEN args.currentAmount ELSE T[i - 1]
        contributions == RMul(I(i), args.monthlyInvestment)
        returns == RSub(RSub(T[i], args.currentAmount), contributions)
    IN  /\ P[i].totalValue = NearestUnit(T[i])
        /\ P[i].cumulativeInvestment = NearestUnit(contributions)
        /\ P[i].cumulativeReturns = NearestUnit(returns)
        /\ P[i].monthlyReturn =
             NearestUnit(RMul(before, RDiv(args.annualReturn, I(12))))
        /\ (IsWhole(T[i]) /\ IsWhole(contributions)) =>
             P[i].totalValue =
               RAdd(args.currentAmount,
                    RAdd(P[i].cumulativeInvestment, P[i].cumulativeReturns))

SimulationConserved ==
  SimulationCall =>
    Conserved(result.monthlyProjections, RunningTotals(Len(result.monthlyProjections)))

C28_WitnessSimulation ==
  /\ SimulationCall
  /\ RGt(args.annualReturn, Zero)
  /\ RGt(args.currentAmount, Zero)
  /\ RGt(args.monthlyInvestment, Zero)
  /\ Len(result.monthlyProjections) > 2
  /\ RGt(result.monthlyProjections[2].cumulativeReturns, Zero)

\* an amount paid in that lies halfway between two whole numbers: the rounded
\* parts add up to one more than the final value
C28_WitnessHalfway ==
  /\ LoanScenarioCall
  /\ IsHalfway(PaidIn)
  /\ result.opportunity.finalValue #
       RAdd(result.opportunity.totalInvested, result.opportunity.investmentReturns)

(***************************************************************************)
(* calculateInvestmentSimulation: the summary against the trajectory       *)
(***************************************************************************)
\* the summary of a result r agrees with the last point of its trajectory: the
\* same contributions, and returns that are the last total less the starting
\* amount and the contributions, the cumulative returns of the last point to
\* within one unit of rounding
SummaryAgrees(r, last) ==
  /\ r.totalInvested = last.cumulativeInvestment
  /\ r.totalReturns =
       RSub(RSub(last.totalValue, r.currentAmount), r.totalInvested)
  /\ RLe(Gap(r.totalReturns, last.cumulativeReturns), One)

\* C29: for every input with monthlyInvestment > 0 and currentAmount <
\* targetAmount the summary of calculateInvestmentSimulation agrees with its
\* trajectory: totalInvested is the cumulativeInvestment of the last emitted
\* point, and totalReturns is the last point's totalValue - currentAmount -
\* totalInvested, which is the last point's cumulativeReturns up to rounding.
C29_SummaryAgrees ==
  (/\ SimulationCall
   /\ RGt(args.monthlyInvestment, Zero)
   /\ RLt(args.currentAmount, args.targetAmount))
  => /\ result.monthlyProjections # <<>>
     /\ SummaryAgrees(result,
                      result.monthlyProjections[Len(result.monthlyProjections)])

\* the same for whole contributions and a horizon within the 600 points of the
\* trajectory
C29_WithinTrajectory ==
  (/\ SimulationCall
   /\ RGt(args.monthlyInvestment, Zero)
   /\ IsWhole(args.monthlyInvestment)
   /\ RLt(args.currentAmount, args.targetAmount)
   /\ RLe(result.projectedMonths, I(MaxProjectionPoints)))
  => /\ result.monthlyProjections # <<>>
     /\ SummaryAgrees(result,
                      result.monthlyProjections[Len(result.monthlyProjections)])

\* a horizon beyond the trajectory at a return of 0: contributions of 1201
\* months against the value of 600, and returns below 0
C29_WitnessBeyond ==
  /\ SimulationCall
  /\ args.annualReturn = Zero
  /\ RGt(args.monthlyInvestment, Zero)
  /\ RGt(result.projectedMonths, I(MaxProjectionPoints))
  /\ Len(result.monthlyProjections) = MaxProjectionPoints
  /\ RLt(result.totalReturns, Zero)

(***************************************************************************)
(* calculatePurchaseSimulation with a down payment of the whole price      *)
(***************************************************************************)
\* a comparison whose financing branch pays the whole price down
FullDownPaymentCall ==
  /\ PurchaseCall
  /\ args.loanTerms.downPaymentPercentage = I(100)
  /\ RGe(args.loanTerms.termMonths, One)

\* the financing branch borrows nothing
NothingBorrowed(loan) ==
  /\ loan.loanAmount = Zero
  /\ loan.monthlyPayment = Zero
  /\ loan.totalInterest = Zero

\* C30: with downPaymentPercentage = 100, for every price, savings, loan rate,
\* loan term of at least one month, return, horizon and capacity the financing
\* branch of calculatePurchaseSimulation has loanAmount = 0, monthlyPayment = 0,
\* totalInterest = 0 and totalCost = productPrice, and the same remainingSavings
\* and finalAssets as the paying-in-full branch; the result is a tie with
\* totalDifference = 0 and the recommendation 'loan'.
C30_FullDownPayment ==
  FullDownPaymentCall =>
    /\ NothingBorrowed(result.loanScenario)
    /\ result.loanScenario.totalCost = args.productPrice
    /\ result.loanScenario.remainingSavings = result.lumpSumScenario.remainingSavings
    /\ result.loanScenario.finalAssets = result.lumpSumScenario.finalAssets
    /\ result.totalDifference = Zero
    /\ result.recommendation = "loan"

\* the same for whole amounts and a capacity that is not negative
C30_WholeAmounts ==
  (/\ FullDownPaymentCall
   /\ IsWhole(args.productPrice)
   /\ IsWhole(args.currentSavings)
   /\ RGe(args.monthlyInvestmentCapacity, Zero))
  => /\ NothingBorrowed(result.loanScenario)
     /\ result.loanScenario.totalCost = args.productPrice
     /\ result.loanScenario.remainingSavings = result.lumpSumScenario.remainingSavings
     /\ result.loanScenario.finalAssets = result.lumpSumScenario.finalAssets
     /\ result.totalDifference = Zero
     /\ result.recommendation = "loan"

\* whole amounts and a negative capacity over a horizon of at least a month:
\* paying in full invests the negative capacity, financing invests 0, and the
\* two branches end apart
C30_WitnessNegativeCapacity ==
  /\ FullDownPaymentCall
  /\ IsWhole(args.productPrice)
  /\ RLt(args.monthlyInvestmentCapacity, Zero)
  /\ NothingBorrowed(result.loanScenario)
  /\ RLt(result.lumpSumScenario.finalAssets, result.loanScenario.finalAssets)
  /\ RGt(result.totalDifference, Zero)

(***************************************************************************)
(* suggestOptimalLoanTerms                                                 *)
(***************************************************************************)
SuggestCall == Done("suggestOptimalLoanTerms")

\* the terms tried: 12, 24, ..., 360 months
TermsTried == {TermStep * k : k \in 1..(LongestTerm \div TermStep)}

\* the lowest of the available rates of the call
LowestRate ==
  CHOOSE r \in {args.availableRates[i] : i \in DOMAIN args.availableRates} :
    \A i \in DOMAIN args.availableRates : RLe(r, args.availableRates[i])

\* the level payment on 80% of the price over n months at the lowest rate
PaymentOver(n) ==
  calculateMonthlyLoanPayment(RMul(args.productPrice, Frac(4, 5)), LowestRate, I(n))

\* 80% of the budget
Affordable == RMul(args.monthlyBudget, Frac(4, 5))

\* the payment over n months fits the budget
Fits(n) == RLe(PaymentOver(n), Affordable)

\* C27: suggestOptimalLoanTerms returns the shortest term among 12, 24, ..., 360
\* months for which the level payment on 80% of productPrice at the lowest
\* available rate is at most 80% of monthlyBudget; the returned monthlyPayment
\* (for the returned term, rate and a down payment of 20%) never exceeds 80% of
\* monthlyBudget.
C27_ShortestTerm ==
  SuggestCall =>
    /\ result.interestRate = LowestRate
    /\ result.downPaymentPercentage = I(20)
    /\ \E n \in TermsTried :
         /\ result.termMonths = I(n)
         /\ Fits(n)
         /\ \A k \in TermsTried : k < n => ~Fits(k)
    /\ RLe(result.monthlyPayment, Affordable)

\* the same where some term fits the budget, the payment taken before it is
\* rounded to whole units
C27_WhereATermFits ==
  (SuggestCall /\ \E n \in TermsTried : Fits(n)) =>
    /\ result.interestRate = LowestRate
    /\ result.downPaymentPercentage = I(20)
    /\ \E n \in TermsTried :
         /\ result.termMonths = I(n)
         /\ Fits(n)
         /\ \A k \in TermsTried : k < n => ~Fits(k)
         /\ result.monthlyPayment = NearestUnit(PaymentOver(n))
         /\ RLe(PaymentOver(n), Affordable)

\* a budget that no term fits: the term returned is the first one, and its
\* payment is above the budget
C27_WitnessNoneFits ==
  /\ SuggestCall
  /\ RGt(args.monthlyBudget, Zero)
  /\ \A n \in TermsTried : ~Fits(n)
  /\ result.termMonths = I(12)
  /\ RGt(result.monthlyPayment, args.monthlyBudget)

\* a term in the middle of the range is the first to fit
C27_WitnessMiddle ==
  /\ SuggestCall
  /\ RGt(result.termMonths, I(12))
  /\ RLt(result.termMonths, I(LongestTerm))
  /\ Fits(result.termMonths[1])

\* a payment that fits the budget and is rounded up above it
C27_WitnessRoundedUp ==
  /\ SuggestCall
  /\ Fits(result.termMonths[1])
  /\ RGt(result.monthlyPayment, Affordable)

(***************************************************************************)
(* GoalForm and Dashboard: the goals of the list                           *)
(***************************************************************************)
\* every goal of the list has a target above its current amount
GoalsAboveCurrent ==
  \A i \in DOMAIN goals : RGt(goals[i].targetAmount, goals[i].currentAmount)

\* the form is open on amounts of which the target is not above the current one
NotAboveCurrent ==
  /\ showGoalForm
  /\ formData # None
  /\ RLe(parseFloat(formData.targetAmount), parseFloat(formData.currentAmount))

\* a step that saves the form
Saves == clock' # clock

\* a step that saves an edit leaves the list as long as it was, replaces the
\* goal with the id of the edited one by the data of the form under the same id
\* and createdAt, and leaves every other goal as it was
EditReplacesOne ==
  (Saves /\ editingGoal # None) =>
    /\ Len(goals') = Len(goals)
    /\ \A i \in DOMAIN goals :
         IF goals[i].id = editingGoal.id
         THEN /\ goals'[i].id = goals[i].id
              /\ goals'[i].createdAt = goals[i].createdAt
              /\ goals'[i].targetAmount = parseFloat(formData.targetAmount)
              /\ goals'[i].currentAmount = parseFloat(formData.currentAmount)
         ELSE goals'[i] = goals[i]

\* C26: from an empty list of goals, after any sequence of creations, edits and
\* deletions submitted through GoalForm and handled by Dashboard, every goal of
\* the list has targetAmount > currentAmount: GoalForm does not submit a goal
\* with targetAmount <= currentAmount, and an edit replaces only the goal with
\* the edited id, keeping its id and createdAt.
C26_GoalsAboveCurrent ==
  /\ []GoalsAboveCurrent
  /\ [][/\ NotAboveCurrent => ~Saves
        /\ EditReplacesOne]_vars

\* a list of two goals of which one has been edited since it was created and
\* the other has not
C26_Witness ==
  /\ Len(goals) = 2
  /\ goals[1].id # goals[2].id
  /\ goals[1].updatedAt > goals[1].createdAt
  /\ goals[2].updatedAt = goals[2].createdAt
  /\ GoalsAboveCurrent

\* a form with equal amounts that was submitted and refused, next to a goal
\* saved before
C26_WitnessRefused ==
  /\ NotAboveCurrent
  /\ formData.title # ""
  /\ "targetAmount" \in errors
  /\ ~IsNaN(parseFloat(formData.targetAmount))
  /\ Len(goals) = 1

\* a goal deleted: the list is empty again after a save
C26_WitnessDeleted ==
  /\ goals = <<>>
  /\ clock > 0

====
